---- MODULE Spec2Model ----
(***************************************************************************)
(* Model of the avalanche-cms command line client (src/cli/av): the token  *)
(* store and Token class (core/token.py), the Token.require guard, the     *)
(* commands logout, session show and login, and login's redirect listener. *)
(*                                                                         *)
(* One command runs at a time; a command is a sequence of steps (pc), and  *)
(* between two steps the clock may advance (Tick).  During login the       *)
(* listener's serve loop, the threads it spawns and the browser run        *)
(* interleaved with the orchestrator.                                      *)
(***************************************************************************)
EXTENDS Integers, Sequences, FiniteSets, TLC

(* ------------------------------------------------------------------ *)
(* Bounds of the model                                                *)
(* ------------------------------------------------------------------ *)
\* the clock advances in steps of TickSecs seconds, MaxTicks times at most
TickSecs == 10
MaxTicks == 4
\* lifetimes of the tokens the token endpoint issues, in seconds
AccessLife == 20
RefreshLife == 30
\* number of GET requests the browser (or anything else) sends to the listener
MaxRequests == 2
\* seconds that pass between two evaluations of the wait loop's condition
WaitJump == 150
\* resolution of the clock: readings of datetime.now per second
TicksPerSec == 2
\* a Token used on its own is asked up to ProbeSecs seconds and a tick after the
\* clock's start
ProbeSecs == 2

(* ------------------------------------------------------------------ *)
(* Program constants                                                  *)
(* ------------------------------------------------------------------ *)
\* token.py:28  def is_about_to_expire(self, threshold_secs=20)
threshold_secs == 20
\* login.py:78  def wait_for_code(code_ready_event, code_queue, timeout=300)
timeout == 300

MaxNow == TickSecs * MaxTicks * TicksPerSec

None == [kind |-> "None"]

\* token.py:12-15
TokenType == {"ID", "ACCESS", "REFRESH"}

(* ------------------------------------------------------------------ *)
(* Encoded JWTs: a string of dot-separated segments whose middle       *)
(* segment carries the claims.                                         *)
(* ------------------------------------------------------------------ *)
Seg(name) == [seg |-> name]

\* a well-formed JWT of session sid expiring at exp, with the claims the provider
\* issues for the scope "openid profile email"
Jwt(exp, sid) ==
    [kind |-> "str",
     parts |-> <<Seg("hdr"),
                 [exp |-> exp, sid |-> sid, sub |-> "u-1",
                  preferred_username |-> "alice", email |-> "alice@example.org",
                  name |-> "Alice A."],
                 Seg("sig")>>]
\* a well-formed JWT whose claims hold no exp
JwtNoExp(sid) == [kind |-> "str", parts |-> <<Seg("hdr"), [sid |-> sid], Seg("sig")>>]
\* a string that is no JWT
Garbage == [kind |-> "str", parts |-> <<Seg("garbage")>>]

Ok(v) == [ok |-> TRUE, val |-> v]
Raise(e) == [ok |-> FALSE, exc |-> e]
ValueError(msg) == [type |-> "ValueError", msg |-> msg]
OtherError(name) == [type |-> name, msg |-> ""]

\* jwt.decode(encoded_jwt, options={"verify_signature": False})
decode_jwt(encoded_jwt) ==
    IF encoded_jwt = None THEN Raise(OtherError("DecodeError"))
    ELSE IF Len(encoded_jwt.parts) # 3 THEN Raise(OtherError("DecodeError"))
    ELSE Ok(encoded_jwt.parts[2])

\* datetime.fromtimestamp(decoded_jwt.get("exp"), tz=utc)
get_expiration(decoded_jwt) ==
    IF "exp" \in DOMAIN decoded_jwt THEN Ok(decoded_jwt.exp * TicksPerSec)
    ELSE Raise(OtherError("TypeError"))

\* Token.__init__(encoded_jwt, token_type)
NewToken(encoded_jwt, token_type) ==
    LET d == decode_jwt(encoded_jwt) IN
    IF ~d.ok THEN d
    ELSE LET e == get_expiration(d.val) IN
         IF ~e.ok THEN e
         ELSE Ok([encoded_jwt |-> encoded_jwt, token_type |-> token_type,
                  decoded_jwt |-> d.val, expiration |-> e.val])

\* an expiry test that still accepts a token one tick after its expiry
is_expired_late(tok, t) == t > tok.expiration + TickSecs * TicksPerSec

\* an expiry test that counts the instant of expiry itself as expired
is_expired_inclusive(tok, t) == t >= tok.expiration

\* Token.is_expired
is_expired(tok, t) == t > tok.expiration

\* datetime.timedelta(seconds=secs), in ticks
timedelta(secs) == secs * TicksPerSec

\* int(delta.total_seconds()): the whole seconds of a difference, cut towards zero
int_total_seconds(delta) ==
    IF delta >= 0 THEN delta \div TicksPerSec ELSE -((-delta) \div TicksPerSec)

\* a near-expiry test that also fires when exactly the threshold is left
is_about_to_expire_inclusive(tok, t, threshold) ==
    LET delta == tok.expiration - t IN
    <<delta <= timedelta(threshold), int_total_seconds(delta)>>

\* Token.is_about_to_expire: a pair (flag, seconds remaining)
is_about_to_expire(tok, t, threshold) ==
    LET delta == tok.expiration - t IN
    <<delta < timedelta(threshold), int_total_seconds(delta)>>

\* Python truth value of a tuple: true unless it is empty
Truthy(tuple) == Len(tuple) > 0

\* a clear that removes the Refresh entry only
ClearRefreshOnly(st) == [st EXCEPT !["REFRESH"] = None]

\* Token.clear: deletes the entry of every token type, ignoring errors
Clear(st) == [t \in TokenType |-> None]

\* a save that leaves nothing but the saved entry in the keyring
SaveAlone(st, tok) ==
    [t \in TokenType |-> IF t = tok.token_type THEN tok.encoded_jwt ELSE None]

\* Token.save
Save(st, tok) == [st EXCEPT ![tok.token_type] = tok.encoded_jwt]

\* a from_jwt that constructs the token and never saves it
from_jwt_unsaved(st, encoded_jwt, token_type, save) ==
    [store |-> st, res |-> NewToken(encoded_jwt, token_type)]

\* a from_jwt that writes the keyring entry before it constructs the token
from_jwt_save_first(st, encoded_jwt, token_type, save) ==
    [store |-> IF save THEN [st EXCEPT ![token_type] = encoded_jwt] ELSE st,
     res |-> NewToken(encoded_jwt, token_type)]

\* Token.from_jwt: construct first, save afterwards
from_jwt(st, encoded_jwt, token_type, save) ==
    LET obj == NewToken(encoded_jwt, token_type) IN
    IF ~obj.ok THEN [store |-> st, res |-> obj]
    ELSE [store |-> IF save THEN Save(st, obj.val) ELSE st, res |-> obj]

\* a from_type that raises on a missing entry without clearing the store
from_type_keeping(st, token_type, alt_str) ==
    LET encoded_jwt == st[token_type] IN
    IF encoded_jwt = None
    THEN [store |-> st,
          res |-> Raise(ValueError(IF alt_str # <<>> THEN alt_str[1]
                                   ELSE "Token data incorrect. Log in and retry."))]
    ELSE [store |-> st, res |-> NewToken(encoded_jwt, token_type)]

\* Token.from_type: keyring.get_password, then the constructor
from_type(st, token_type, alt_str) ==
    LET encoded_jwt == st[token_type] IN
    IF encoded_jwt = None
    THEN [store |-> Clear(st),
          res |-> Raise(ValueError(IF alt_str # <<>> THEN alt_str[1]
                                   ELSE "Token data incorrect. Log in and retry."))]
    ELSE [store |-> st, res |-> NewToken(encoded_jwt, token_type)]

(* ------------------------------------------------------------------ *)
(* Answers of the token endpoint                                       *)
(* ------------------------------------------------------------------ *)
Response(status, ctype, json, body) ==
    [status |-> status, ctype |-> ctype, json |-> json, body |-> body]

\* the three tokens the endpoint issues at time t
GoodBody(t) == [id_token |-> Jwt(t \div TicksPerSec + AccessLife, "s1"),
                access_token |-> Jwt(t \div TicksPerSec + AccessLife, "s1"),
                refresh_token |-> Jwt(t \div TicksPerSec + RefreshLife, "s1")]
\* a JSON object without tokens, such as {"error": "invalid_grant"}
ErrorBody == [id_token |-> None, access_token |-> None, refresh_token |-> None]

Responses(t) ==
    { Response(200, "application/json", TRUE, GoodBody(t)),
      Response(200, "application/json", TRUE, [GoodBody(t) EXCEPT !.id_token = None]),
      Response(200, "application/json", TRUE, [GoodBody(t) EXCEPT !.refresh_token = None]),
      Response(200, "application/json", TRUE, [GoodBody(t) EXCEPT !.access_token = Garbage]),
      Response(200, "application/json", FALSE, ErrorBody),
      Response(200, "text/html", FALSE, ErrorBody),
      Response(400, "application/json", TRUE, ErrorBody),
      Response(502, "text/html", FALSE, ErrorBody) }

\* Token.from_response: ID, then ACCESS, then REFRESH; stops at the first failure
from_response(st, response, save) ==
    IF response.ctype # "application/json"
    THEN [store |-> st, res |-> Raise(ValueError("Response should be from a JSON 'requests.post'."))]
    ELSE IF ~response.json
    THEN [store |-> st, res |-> Raise(ValueError("JSONDecodeError"))]
    ELSE
      LET i == from_jwt(st, response.body.id_token, "ID", save) IN
      IF ~i.res.ok THEN i
      ELSE LET a == from_jwt(i.store, response.body.access_token, "ACCESS", save) IN
           IF ~a.res.ok THEN a
           ELSE LET r == from_jwt(a.store, response.body.refresh_token, "REFRESH", save) IN
                IF ~r.res.ok THEN r
                ELSE [store |-> r.store, res |-> Ok(<<i.res.val, a.res.val, r.res.val>>)]

(* ------------------------------------------------------------------ *)
(* State                                                               *)
(* ------------------------------------------------------------------ *)
VARIABLES
    store,        \* the keyring: token type -> encoded JWT or None
    now,          \* the clock, in ticks (TicksPerSec to the second)
    cmd,          \* the command being run
    pc,           \* its position (a line of the source)
    g,            \* the parameters of Token.require for this command
    token,        \* wrapper's local "token"
    exc,          \* the exception being handled, with handle_error's alt_str
    ret,          \* where Token.refresh returns to
    resp,         \* the response Token.refresh received
    out,          \* the structured messages written to standard output
    exited,       \* the process has terminated
    exitStatus,   \* its exit status
    uncaught,     \* it terminated by an exception nothing caught
    funcCalls,    \* number of times the wrapped operation was invoked
    funcToken,    \* the token handed to it
    refreshPosts, \* refresh requests sent by this invocation
    chk,          \* the operands of the guard's final check (line 158)
    store0,       \* the keyring as it was when the command was invoked
    \* ---- login (commands/login.py) ----
    httpd,            \* the TCPServer: socket bound, __shutdown_request, __is_shut_down
    srv,              \* position of the thread running httpd.serve_forever
    cur,              \* the request the handler is working on
    backlog,          \* connections waiting to be accepted
    sent,             \* number of requests sent to the listener so far
    code_queue,       \* queue.Queue()
    code_ready_event, \* threading.Event()
    shut,             \* the threads started with target=httpd.shutdown
    responded,        \* codes whose request was answered with 200
    delivered,        \* every code ever put into code_queue, in order
    authorization_code, \* login's local of that name
    elapsed,          \* time.time() - start_time in wait_for_code
    interrupted,      \* a KeyboardInterrupt ended the wait
    joined,           \* server_thread.join() has returned
    browserOpened,    \* webbrowser.open_new was called
    exchangePosts,    \* code exchange requests sent
    cli_response,     \* login's local of that name
    \* ---- more than one attempt ----
    prev,             \* how the login attempt before this one ended
    port,             \* the process whose socket is bound to port 49200
    attempts,         \* two login processes running side by side
    \* ---- PKCE (login.py:102-134) ----
    token_urlsafe,    \* what secrets.token_urlsafe(32) returns in this attempt
    code_verifier,    \* login's local of that name
    params,           \* the query parameters of the authorization URL
    data,             \* the form data of the code exchange request
    \* ---- a Token object used on its own (core/token.py) ----
    subject,          \* the Token constructed from a JWT
    asked,           \* the last method called on it, when, and what it returned
    \* ---- two logout processes on one keyring ----
    logouts,          \* process -> where it is and its locals
    \* ---- features (commands/feature.py) ----
    features          \* the FeatureSet loaded by the running command: enabled keys

tokenVars == <<cmd, pc, g, token, exc, ret, resp, out, exited, exitStatus,
               uncaught, funcCalls, funcToken, refreshPosts, chk, store0>>
guardVars == <<g, token, exc, ret, funcCalls, funcToken, refreshPosts, chk, store0>>
serverVars == <<httpd, srv, cur, backlog, sent, code_queue, code_ready_event,
                shut, responded, delivered>>
mainVars == <<authorization_code, elapsed, interrupted, joined, browserOpened,
              exchangePosts, cli_response>>
loginVars == <<serverVars, mainVars>>
pkceVars == <<token_urlsafe, code_verifier, params, data>>
unitVars == <<subject, asked>>
extraVars == <<prev, port, attempts, pkceVars, unitVars, logouts, features>>
vars == <<store, now, tokenVars, loginVars, extraVars>>

NoGuard == [token_type |-> "ACCESS", suppress_refresh |-> FALSE,
            pass_type |-> <<>>, alt_str |-> <<>>]
NoExc == [e |-> None, alt_str |-> <<>>, where |-> "none"]
NoChk == [done |-> FALSE, at |-> 0, exp |-> 0, type |-> "ACCESS"]

\* entries a session that began before the first command left in the keyring
InitEntries == {None, Jwt(TickSecs, "s0"), Jwt(3 * TickSecs, "s0")}

NoServer == [bound |-> FALSE, shutdown_request |-> FALSE, is_shut_down |-> FALSE]
NoRequest == [path |-> <<>>, query |-> [none |-> <<>>]]

LoginInit ==
    /\ httpd = NoServer
    /\ srv = "none"
    /\ cur = NoRequest
    /\ backlog = <<>>
    /\ sent = 0
    /\ code_queue = <<>>
    /\ code_ready_event = FALSE
    /\ shut = <<>>
    /\ responded = <<>>
    /\ delivered = <<>>
    /\ authorization_code = <<>>
    /\ elapsed = 0
    /\ interrupted = FALSE
    /\ joined = FALSE
    /\ browserOpened = FALSE
    /\ exchangePosts = 0
    /\ cli_response = "none"

CommandInit ==
    /\ now = 0
    /\ cmd = "none"
    /\ pc = "idle"
    /\ g = NoGuard
    /\ token = None
    /\ exc = NoExc
    /\ ret = "none"
    /\ resp = None
    /\ out = <<>>
    /\ exited = FALSE
    /\ exitStatus = 0
    /\ uncaught = FALSE
    /\ funcCalls = 0
    /\ funcToken = None
    /\ refreshPosts = 0
    /\ chk = NoChk
    /\ store0 = store

\* the two processes of the side-by-side logins
Procs == {1, 2}

\* a login process that has not started
NoAttempt == [pc |-> "idle", bound |-> FALSE, bindFailed |-> FALSE,
              browserOpened |-> FALSE, waited |-> FALSE, code |-> FALSE,
              exitStatus |-> 0, uncaught |-> FALSE]

\* a logout process that has not started
NoLogout == [pc |-> "idle", k |-> 0, token |-> None, resp |-> None,
             then |-> "none", exitStatus |-> 0, saved |-> 0, raced |-> FALSE]

ExtraInit ==
    /\ prev = None
    /\ port = 0
    /\ attempts = [p \in Procs |-> NoAttempt]
    /\ code_verifier = ""
    /\ params = None
    /\ data = None
    /\ subject = None
    /\ asked = None
    /\ logouts = [p \in Procs |-> NoLogout]
    /\ features = {}

Init ==
    /\ store \in [TokenType -> InitEntries]
    /\ CommandInit
    /\ LoginInit
    /\ ExtraInit
    /\ token_urlsafe = "v1"

(* ------------------------------------------------------------------ *)
(* Environment                                                         *)
(* ------------------------------------------------------------------ *)
\* time passes
Tick ==
    /\ now < MaxNow
    /\ now' = now + TickSecs * TicksPerSec
    /\ UNCHANGED <<extraVars, store, tokenVars, loginVars>>

\* something other than the client rewrites a keyring entry
Corrupt ==
    /\ pc = "idle"
    /\ \E t \in TokenType, v \in {Garbage, JwtNoExp("s0")} :
          /\ store[t] # None
          /\ store' = [store EXCEPT ![t] = v]
    /\ UNCHANGED <<extraVars, now, tokenVars, loginVars>>

(* ------------------------------------------------------------------ *)
(* Command line: one command at a time                                 *)
(* ------------------------------------------------------------------ *)
\* logout.py:10  @Token.require(token_type=TokenType.REFRESH, alt_str="Not logged in.")
LogoutGuard == [token_type |-> "REFRESH", suppress_refresh |-> FALSE,
                pass_type |-> <<>>, alt_str |-> <<"Not logged in.">>]
\* session.py:24  @Token.require(token_type=TokenType.REFRESH, suppress_refresh=True)
SessionShowGuard == [token_type |-> "REFRESH", suppress_refresh |-> TRUE,
                     pass_type |-> <<>>, alt_str |-> <<>>]
\* token.py:138  any other use of Token.require(token_type, suppress_refresh, pass_type)
ProtectedGuards ==
    { [token_type |-> t, suppress_refresh |-> s, pass_type |-> p, alt_str |-> <<>>] :
        t \in TokenType, s \in BOOLEAN, p \in {<<>>} \cup {<<q>> : q \in TokenType} }

\* a guarded command is invoked: the wrapper of Token.require starts
\* feature.py:7-9  the feature keys session show asks for
Features == {"show-token"}

\* feature.py:61-63  FeatureSet.is_set
feature_is_set(feature_set, feature) == feature \in feature_set

\* session.py:9  features = FeatureSet() is loaded with the command's module
Invoke ==
    /\ pc = "idle"
    /\ \E c \in {"logout", "session_show", "protected"} :
         /\ cmd' = c
         /\ g' \in CASE c = "logout" -> {LogoutGuard}
                     [] c = "session_show" -> {SessionShowGuard}
                     [] OTHER -> ProtectedGuards
         /\ features' \in IF c = "session_show" THEN SUBSET Features ELSE {features}
    /\ pc' = "g146"
    /\ store0' = store
    /\ UNCHANGED <<prev, port, attempts, pkceVars, unitVars, logouts,
                   store, now, token, exc, ret, resp, out, exited, exitStatus,
                   uncaught, funcCalls, funcToken, refreshPosts, chk,
                   loginVars>>

\* the process is gone; the next command starts from a fresh one
Finish ==
    /\ pc = "exited"
    /\ cmd' = "none"
    /\ pc' = "idle"
    /\ g' = NoGuard
    /\ token' = None
    /\ exc' = NoExc
    /\ ret' = "none"
    /\ resp' = None
    /\ out' = <<>>
    /\ exited' = FALSE
    /\ exitStatus' = 0
    /\ uncaught' = FALSE
    /\ funcCalls' = 0
    /\ funcToken' = None
    /\ refreshPosts' = 0
    /\ chk' = NoChk
    /\ store0' = store
    /\ features' = {}
    /\ UNCHANGED <<prev, port, attempts, pkceVars, unitVars, logouts,
                   store, now, loginVars>>

(* ------------------------------------------------------------------ *)
(* Token.require: the wrapper (token.py:142-168)                       *)
(* ------------------------------------------------------------------ *)
\* line 146: token = Token.from_type(token_type=token_type, alt_str=alt_str)
GuardLoad ==
    /\ pc = "g146"
    /\ LET r == from_type(store, g.token_type, g.alt_str) IN
         /\ store' = r.store
         /\ IF r.res.ok
            THEN /\ token' = r.res.val
                 /\ pc' = "g148"
                 /\ exc' = exc
            ELSE /\ token' = token
                 /\ pc' = "handle_error"
                 /\ exc' = [e |-> r.res.exc, alt_str |-> <<>>, where |-> "guard"]
    /\ UNCHANGED <<extraVars, now, cmd, g, ret, resp, out, exited, exitStatus, uncaught,
                   funcCalls, funcToken, refreshPosts, chk,
                   store0, loginVars>>

\* lines 148-151: if token is None and token_type != TokenType.REFRESH: ...
GuardDerive ==
    /\ pc = "g148"
    /\ IF token = None /\ g.token_type # "REFRESH"
       THEN LET r == from_type(store, "REFRESH", <<>>) IN
              /\ store' = r.store
              /\ IF ~r.res.ok
                 THEN /\ pc' = "handle_error"
                      /\ exc' = [e |-> r.res.exc, alt_str |-> <<>>, where |-> "guard"]
                      /\ ret' = ret
                 ELSE IF ~is_expired(r.res.val, now) /\ ~g.suppress_refresh
                 THEN /\ pc' = "r110"
                      /\ ret' = "g152"
                      /\ exc' = exc
                 ELSE /\ pc' = "g154"
                      /\ UNCHANGED <<exc, ret>>
       ELSE /\ pc' = "g154"
            /\ UNCHANGED <<store, exc, ret>>
    /\ UNCHANGED <<extraVars, now, cmd, g, token, resp, out, exited, exitStatus, uncaught,
                   funcCalls, funcToken, refreshPosts, chk,
                   store0, loginVars>>

\* line 154 without "and not suppress_refresh"
NearExpiryTestUnsuppressed(tok, t, suppress_refresh) ==
    tok # None /\ Truthy(is_about_to_expire(tok, t, threshold_secs))

\* line 154: if token and token.is_about_to_expire() and not suppress_refresh:
NearExpiryTest(tok, t, suppress_refresh) ==
    tok # None /\ Truthy(is_about_to_expire(tok, t, threshold_secs)) /\ ~suppress_refresh

GuardNearExpiry ==
    /\ pc = "g154"
    /\ IF NearExpiryTest(token, now, g.suppress_refresh)
       THEN pc' = "r110" /\ ret' = "g156"
       ELSE pc' = "g158" /\ ret' = ret
    /\ UNCHANGED <<extraVars, store, now, cmd, g, token, exc, resp, out, exited, exitStatus,
                   uncaught, funcCalls, funcToken, refreshPosts, chk,
                   store0, loginVars>>

\* lines 152 and 156: token = Token.from_type(token_type)
GuardReload ==
    /\ pc \in {"g152", "g156"}
    /\ LET r == from_type(store, g.token_type, <<>>) IN
         /\ store' = r.store
         /\ IF r.res.ok
            THEN /\ token' = r.res.val
                 /\ pc' = IF pc = "g152" THEN "g154" ELSE "g158"
                 /\ exc' = exc
            ELSE /\ token' = token
                 /\ pc' = "handle_error"
                 /\ exc' = [e |-> r.res.exc, alt_str |-> <<>>, where |-> "guard"]
    /\ UNCHANGED <<extraVars, now, cmd, g, ret, resp, out, exited, exitStatus, uncaught,
                   funcCalls, funcToken, refreshPosts, chk,
                   store0, loginVars>>

\* line 158: if token is None or token.is_expired(): raise ValueError(...)
FinalTest(tok, t) == tok = None \/ is_expired(tok, t)

GuardFinal ==
    /\ pc = "g158"
    /\ chk' = IF token = None THEN [NoChk EXCEPT !.done = TRUE, !.type = "NONE"]
              ELSE [done |-> TRUE, at |-> now, exp |-> token.expiration,
                    type |-> token.token_type]
    /\ IF FinalTest(token, now)
       THEN /\ pc' = "handle_error"
            /\ exc' = [e |-> ValueError(IF g.alt_str # <<>> THEN g.alt_str[1]
                                        ELSE "Token invalid. Log in and retry."),
                       alt_str |-> <<>>, where |-> "guard"]
       ELSE /\ pc' = "g164"
            /\ exc' = exc
    /\ UNCHANGED <<extraVars, store, now, cmd, g, token, ret, resp, out, exited, exitStatus,
                   uncaught, funcCalls, funcToken, refreshPosts,
                   store0, loginVars>>

\* lines 164-165, outside the try: if pass_type and pass_type != token_type:
\*     token = Token.from_type(pass_type)
GuardPassType ==
    /\ pc = "g164"
    /\ IF g.pass_type # <<>> /\ g.pass_type[1] # g.token_type
       THEN LET r == from_type(store, g.pass_type[1], <<>>) IN
              /\ store' = r.store
              /\ IF r.res.ok
                 THEN /\ token' = r.res.val
                      /\ pc' = "g167"
                      /\ UNCHANGED <<exited, exitStatus, uncaught>>
                 ELSE \* nothing catches the exception: traceback, status 1
                      /\ token' = token
                      /\ pc' = "exited"
                      /\ exited' = TRUE
                      /\ exitStatus' = 1
                      /\ uncaught' = TRUE
       ELSE /\ pc' = "g167"
            /\ UNCHANGED <<store, token, exited, exitStatus, uncaught>>
    /\ UNCHANGED <<extraVars, now, cmd, g, exc, ret, resp, out, funcCalls, funcToken,
                   refreshPosts, chk,
                   store0, loginVars>>

\* lines 167-168: kwargs['token'] = token; return func(*args, **kwargs)
BodyStart(c) == CASE c = "logout" -> "lo15"
                  [] c = "session_show" -> "ss29"
                  [] OTHER -> "op"

GuardCall ==
    /\ pc = "g167"
    /\ funcCalls' = funcCalls + 1
    /\ funcToken' = token
    /\ pc' = BodyStart(cmd)
    /\ UNCHANGED <<extraVars, store, now, cmd, g, token, exc, ret, resp, out, exited,
                   exitStatus, uncaught, refreshPosts, chk,
                   store0, loginVars>>

\* Token.handle_error (token.py:173-186)
ErrorMessage(e, alt_str) ==
    IF e.type = "ValueError" THEN e.msg
    ELSE IF alt_str # <<>> THEN alt_str[1]
    ELSE "Error occurred. Log in and retry."

HandleError ==
    /\ pc = "handle_error"
    /\ store' = Clear(store)
    /\ out' = Append(out, [error |-> ErrorMessage(exc.e, exc.alt_str)])
    /\ exited' = TRUE
    /\ exitStatus' = 1
    /\ pc' = "exited"
    /\ UNCHANGED <<extraVars, now, cmd, g, token, exc, ret, resp, uncaught, funcCalls,
                   funcToken, refreshPosts, chk,
                   store0, loginVars>>

(* ------------------------------------------------------------------ *)
(* Token.refresh (token.py:107-135)                                    *)
(* ------------------------------------------------------------------ *)
\* line 110: refresh_token = Token.from_type(TokenType.REFRESH)
RefreshLoad ==
    /\ pc = "r110"
    /\ LET r == from_type(store, "REFRESH", <<>>) IN
         /\ store' = r.store
         /\ IF r.res.ok
            THEN pc' = "r128" /\ exc' = exc
            ELSE pc' = "handle_error" /\ exc' = [e |-> r.res.exc, alt_str |-> <<>>, where |-> "guard"]
    /\ UNCHANGED <<extraVars, now, cmd, g, token, ret, resp, out, exited, exitStatus, uncaught,
                   funcCalls, funcToken, refreshPosts, chk,
                   store0, loginVars>>

\* line 128: response = requests.post(token_endpoint, headers=headers, data=payload)
RefreshPost ==
    /\ pc = "r128"
    /\ refreshPosts' = refreshPosts + 1
    /\ \/ \E r \in Responses(now) :
            /\ resp' = r
            /\ pc' = "r129"
            /\ exc' = exc
       \/ \* the request itself fails
          /\ resp' = resp
          /\ pc' = "handle_error"
          /\ exc' = [e |-> OtherError("ConnectionError"), alt_str |-> <<>>,
                     where |-> "guard"]
    /\ UNCHANGED <<extraVars, store, now, cmd, g, token, ret, out, exited, exitStatus, uncaught,
                   funcCalls, funcToken, chk,
                   store0, loginVars>>

\* a refresh that does not look at the status of the answer
RefreshOutcomeAnyStatus(st, response) ==
    IF response.status = 200 THEN from_response(st, response, TRUE)
    ELSE [store |-> st, res |-> Ok(<<>>)]

\* lines 129-135: on 200 parse and save the tokens, otherwise raise ValueError
RefreshOutcome(st, response) ==
    IF response.status = 200
    THEN from_response(st, response, TRUE)
    ELSE [store |-> st, res |-> Raise(ValueError("Token refresh failed."))]

RefreshResult ==
    /\ pc = "r129"
    /\ LET r == RefreshOutcome(store, resp) IN
         /\ store' = r.store
         /\ IF r.res.ok
            THEN pc' = ret /\ exc' = exc
            ELSE pc' = "handle_error" /\ exc' = [e |-> r.res.exc, alt_str |-> <<>>, where |-> "guard"]
    /\ UNCHANGED <<extraVars, now, cmd, g, token, ret, resp, out, exited, exitStatus, uncaught,
                   funcCalls, funcToken, refreshPosts, chk,
                   store0, loginVars>>

(* ------------------------------------------------------------------ *)
(* The wrapped operations                                              *)
(* ------------------------------------------------------------------ *)
\* an operation that only uses the token it is handed
ProtectedRun ==
    /\ pc = "op"
    /\ pc' = "exited"
    /\ exited' = TRUE
    /\ exitStatus' = 0
    /\ UNCHANGED <<extraVars, store, now, cmd, g, token, exc, ret, resp, out, uncaught,
                   funcCalls, funcToken, refreshPosts, chk,
                   store0, loginVars>>

\* logout without the Token.clear() of its finally block
LogoutPostWithoutClear ==
    /\ pc = "lo15"
    /\ store' = store
    /\ \E answer \in {"ok", "http_error", "no_response"}, verbose_errors \in BOOLEAN :
         IF answer = "ok"
         THEN /\ out' = Append(out, [message |-> "User logged out."])
              /\ pc' = "exited" /\ exited' = TRUE /\ exitStatus' = 0
              /\ exc' = exc
         ELSE IF answer = "http_error" \/ ~verbose_errors
         THEN /\ out' = Append(out, [error |-> IF verbose_errors
                                               THEN "Logout failed: status - text. Cache cleared."
                                               ELSE "Logout failed, cache cleared."])
              /\ pc' = "exited" /\ exited' = TRUE /\ exitStatus' = 0
              /\ exc' = exc
         ELSE \* line 36 reads e.response.status_code of an exception without response
              /\ pc' = "handle_error"
              /\ exc' = [e |-> OtherError("AttributeError"), alt_str |-> <<>>,
                         where |-> "body"]
              /\ UNCHANGED <<out, exited, exitStatus>>
    /\ UNCHANGED <<extraVars, now, cmd, g, token, ret, resp, uncaught, funcCalls, funcToken,
                   refreshPosts, chk,
                   store0, loginVars>>

\* logout (logout.py:13-47): the end-session request, Token.clear in the finally,
\* then the message
LogoutPost ==
    /\ pc = "lo15"
    /\ store' = Clear(store)
    /\ \E answer \in {"ok", "http_error", "no_response"}, verbose_errors \in BOOLEAN :
         IF answer = "ok"
         THEN /\ out' = Append(out, [message |-> "User logged out."])
              /\ pc' = "exited" /\ exited' = TRUE /\ exitStatus' = 0
              /\ exc' = exc
         ELSE IF answer = "http_error" \/ ~verbose_errors
         THEN /\ out' = Append(out, [error |-> IF verbose_errors
                                               THEN "Logout failed: status - text. Cache cleared."
                                               ELSE "Logout failed, cache cleared."])
              /\ pc' = "exited" /\ exited' = TRUE /\ exitStatus' = 0
              /\ exc' = exc
         ELSE \* line 36 reads e.response.status_code of an exception without response
              /\ pc' = "handle_error"
              /\ exc' = [e |-> OtherError("AttributeError"), alt_str |-> <<>>,
                         where |-> "body"]
              /\ UNCHANGED <<out, exited, exitStatus>>
    /\ UNCHANGED <<extraVars, now, cmd, g, token, ret, resp, uncaught, funcCalls, funcToken,
                   refreshPosts, chk,
                   store0, loginVars>>

\* session show (session.py:27-35): tokens["access"] = Token.from_type(TokenType.ACCESS)
SessionLoadAccess ==
    /\ pc = "ss29"
    /\ LET r == from_type(store, "ACCESS", <<>>) IN
         /\ store' = r.store
         /\ IF r.res.ok
            THEN pc' = "ss39" /\ exc' = exc
            ELSE /\ pc' = "handle_error"
                 /\ exc' = [e |-> r.res.exc,
                            alt_str |-> <<"Session inactive. Log in and retry.">>,
                            where |-> "body"]
    /\ UNCHANGED <<extraVars, now, cmd, g, token, ret, resp, out, exited, exitStatus, uncaught,
                   funcCalls, funcToken, refreshPosts, chk,
                   store0, loginVars>>

\* details that show the encoded JWT of every unexpired token
TokenDetailsShowing(tok, t, show_token) ==
    [status |-> IF tok.expiration - t > 0 THEN "active" ELSE "expired",
     expires_at_utc |-> tok.expiration,
     token |-> IF tok.expiration - t > 0 THEN <<tok.encoded_jwt>> ELSE <<>>]

\* session.py:39-53: the details shown of one token
TokenDetails(tok, t, show_token) ==
    [status |-> IF tok.expiration - t > 0 THEN "active" ELSE "expired",
     expires_at_utc |-> tok.expiration,
     token |-> IF tok.expiration - t > 0 /\ show_token THEN <<tok.encoded_jwt>> ELSE <<>>]

\* session.py:37-68
SessionPrint ==
    /\ pc = "ss39"
    /\ LET show_token == feature_is_set(features, "show-token")
           access == from_type(store, "ACCESS", <<>>).res.val IN
         out' = Append(out, [message |-> "Session active.",
                             active |-> token.expiration - now > 0,
                             access_token |-> TokenDetails(access, now, show_token),
                             refresh_token |-> TokenDetails(token, now, show_token)])
    /\ pc' = "exited"
    /\ exited' = TRUE
    /\ exitStatus' = 0
    /\ UNCHANGED <<extraVars, store, now, cmd, g, token, exc, ret, resp, uncaught, funcCalls,
                   funcToken, refreshPosts, chk,
                   store0, loginVars>>

(* ------------------------------------------------------------------ *)
(* login (commands/login.py): requests to the redirect listener        *)
(* ------------------------------------------------------------------ *)
\* login.py:100  the path of redirect_uri, as segments
CallbackPath == <<"avalanchecli", "oidc", "pkce", "callback">>

Request(path, query) == [path |-> path, query |-> query]
WithCode(c) == [code |-> <<c>>]
NoCode == [state |-> <<"x">>]

\* the GET requests something may send to the port
Requests ==
    { Request(CallbackPath, WithCode("c1")),
      Request(CallbackPath, WithCode("c2")),
      Request(CallbackPath, NoCode),
      Request(<<"other", "callback">>, WithCode("c3")),
      Request(<<"favicon.ico">>, NoCode),
      Request(<<"avalanchecli", "oidc", "pkce", "callback", "x">>, WithCode("c4")) }

PathIsExactly(path) == path = CallbackPath

\* login.py:59  urlparse(self.path).path.endswith('/callback')
PathMatches(path) == path # <<>> /\ path[Len(path)] = "callback"

\* login.py:60-61  parse_qs(urlparse(self.path).query).get("code", None)
QueryCode(query) == IF "code" \in DOMAIN query THEN query.code ELSE <<>>

\* login.py:59-62  the request carries a code the handler will deliver
Accepts(req) == PathMatches(req.path) /\ QueryCode(req.query) # <<>>

\* the process is running and the socket accepts connections
Alive == cmd = "login" /\ ~exited

\* something (the browser after authentication, or anything else) connects
SendRequest ==
    /\ Alive
    /\ httpd.bound
    /\ sent < MaxRequests
    /\ \E req \in Requests : backlog' = Append(backlog, req)
    /\ sent' = sent + 1
    /\ UNCHANGED <<extraVars, store, now, tokenVars, mainVars, httpd, srv, cur, code_queue,
                   code_ready_event, shut, responded, delivered>>

(* ------------------------------------------------------------------ *)
(* The thread running httpd.serve_forever (started at login.py:72-74)  *)
(* ------------------------------------------------------------------ *)
\* serve_forever begins: __is_shut_down.clear()
ServeEnter ==
    /\ Alive
    /\ srv = "started"
    /\ httpd' = [httpd EXCEPT !.is_shut_down = FALSE]
    /\ srv' = "while"
    /\ UNCHANGED <<extraVars, store, now, tokenVars, mainVars, cur, backlog, sent, code_queue,
                   code_ready_event, shut, responded, delivered>>

\* while not self.__shutdown_request: select; if __shutdown_request: break;
\* if ready: handle one request
ServeStep(h, pending) ==
    IF h.shutdown_request THEN "finally"
    ELSE IF pending # <<>> THEN "do_GET"
    ELSE "while"

ServeLoop ==
    /\ Alive
    /\ srv = "while"
    /\ srv' = ServeStep(httpd, backlog)
    /\ IF srv' = "do_GET"
       THEN cur' = Head(backlog) /\ backlog' = Tail(backlog)
       ELSE UNCHANGED <<cur, backlog>>
    /\ UNCHANGED <<extraVars, store, now, tokenVars, mainVars, httpd, sent, code_queue,
                   code_ready_event, shut, responded, delivered>>

\* finally: self.__shutdown_request = False; self.__is_shut_down.set()
ServeFinally ==
    /\ Alive
    /\ srv = "finally"
    /\ httpd' = [httpd EXCEPT !.shutdown_request = FALSE, !.is_shut_down = TRUE]
    /\ srv' = "ended"
    /\ UNCHANGED <<extraVars, store, now, tokenVars, mainVars, cur, backlog, sent, code_queue,
                   code_ready_event, shut, responded, delivered>>

(* RedirectHandler.do_GET (login.py:58-69), run by the serving thread *)
\* lines 59-62: the path test and the code parameter
HandlerTest ==
    /\ Alive
    /\ srv = "do_GET"
    /\ srv' = IF Accepts(cur) THEN "h63" ELSE "while"
    /\ UNCHANGED <<extraVars, store, now, tokenVars, mainVars, httpd, cur, backlog, sent,
                   code_queue, code_ready_event, shut, responded, delivered>>

\* a handler that sets the event where line 63 puts the code
HandlerSetInsteadOfPut ==
    /\ Alive
    /\ srv = "h63"
    /\ code_ready_event' = TRUE
    /\ srv' = "h64"
    /\ UNCHANGED <<extraVars, store, now, tokenVars, mainVars, httpd, cur, backlog, sent,
                   code_queue, shut, responded, delivered>>

\* a handler that starts the shutdown thread before it answers the browser
HandlerPutThenShutdown ==
    /\ Alive
    /\ srv = "h63"
    /\ code_queue' = Append(code_queue, QueryCode(cur.query)[1])
    /\ delivered' = Append(delivered, QueryCode(cur.query)[1])
    /\ shut' = Append(shut, "new")
    /\ srv' = "h64"
    /\ UNCHANGED <<extraVars, store, now, tokenVars, mainVars, httpd, cur, backlog,
                   sent, code_ready_event, responded>>

\* line 63: code_queue.put(code[0])
HandlerPut ==
    /\ Alive
    /\ srv = "h63"
    /\ code_queue' = Append(code_queue, QueryCode(cur.query)[1])
    /\ delivered' = Append(delivered, QueryCode(cur.query)[1])
    /\ srv' = "h64"
    /\ UNCHANGED <<extraVars, store, now, tokenVars, mainVars, httpd, cur, backlog, sent,
                   code_ready_event, shut, responded>>

\* lines 64-67: the 200 response is written
HandlerRespond ==
    /\ Alive
    /\ srv = "h64"
    /\ responded' = Append(responded, QueryCode(cur.query)[1])
    /\ srv' = "h68"
    /\ UNCHANGED <<extraVars, store, now, tokenVars, mainVars, httpd, cur, backlog, sent,
                   code_queue, code_ready_event, shut, delivered>>

\* line 68: code_ready_event.set()
HandlerSetEvent ==
    /\ Alive
    /\ srv = "h68"
    /\ code_ready_event' = TRUE
    /\ srv' = "h69"
    /\ UNCHANGED <<extraVars, store, now, tokenVars, mainVars, httpd, cur, backlog, sent,
                   code_queue, shut, responded, delivered>>

\* line 69: threading.Thread(target=httpd.shutdown).start()
HandlerSpawnShutdown ==
    /\ Alive
    /\ srv = "h69"
    /\ shut' = Append(shut, "new")
    /\ srv' = "while"
    /\ UNCHANGED <<extraVars, store, now, tokenVars, mainVars, httpd, cur, backlog, sent,
                   code_queue, code_ready_event, responded, delivered>>

(* httpd.shutdown() in a thread of its own *)
\* self.__shutdown_request = True
ShutdownThreadRequest ==
    /\ Alive
    /\ \E i \in DOMAIN shut :
         /\ shut[i] = "new"
         /\ shut' = [shut EXCEPT ![i] = "waiting"]
    /\ httpd' = [httpd EXCEPT !.shutdown_request = TRUE]
    /\ UNCHANGED <<extraVars, store, now, tokenVars, mainVars, srv, cur, backlog, sent,
                   code_queue, code_ready_event, responded, delivered>>

\* self.__is_shut_down.wait()
ShutdownThreadReturn ==
    /\ Alive
    /\ httpd.is_shut_down
    /\ \E i \in DOMAIN shut :
         /\ shut[i] = "waiting"
         /\ shut' = [shut EXCEPT ![i] = "done"]
    /\ UNCHANGED <<extraVars, store, now, tokenVars, mainVars, httpd, srv, cur, backlog, sent,
                   code_queue, code_ready_event, responded, delivered>>

(* ------------------------------------------------------------------ *)
(* login: the orchestrator (login.py:93-173)                           *)
(* ------------------------------------------------------------------ *)
\* what secrets.token_urlsafe(32) may return
Verifiers == {"v1", "v2"}

\* str.encode('utf-8') and bytes.decode('utf-8')
encode(str) == [bytes |-> str]
decode(bytes) == bytes.bytes

\* hashlib.sha256(b).digest()
sha256(b) == [sha256_of |-> b]

\* base64.urlsafe_b64encode of a 32-byte digest: 43 characters and one '='
urlsafe_b64encode(b) == encode([b64url_of |-> b, padding |-> "="])

\* a challenge that keeps the padding of the encoding
rstrip_nothing(b) == b

\* bytes.rstrip(b'=')
rstrip(b) == [b EXCEPT !.bytes.padding = ""]

\* login.py:48-53
generate_code_verifier_and_challenge(secret) ==
    LET verifier == encode(secret)
        challenge == rstrip(urlsafe_b64encode(sha256(verifier)))
    IN  <<decode(verifier), decode(challenge)>>

\* login.py:99-100
redirect_uri == [scheme |-> "http", host |-> "localhost", port |-> 49200,
                 path |-> CallbackPath]

\* lines 96-118: the PKCE pair, the authorization URL, the queue and the event
LoginInvoke ==
    /\ pc = "idle"
    /\ cmd' = "login"
    /\ LET pair == generate_code_verifier_and_challenge(token_urlsafe) IN
           /\ code_verifier' = pair[1]
           /\ params' = [client_id |-> "avalanchecli",
                         response_type |-> "code",
                         scope |-> "openid profile email",
                         redirect_uri |-> redirect_uri,
                         code_challenge |-> pair[2],
                         code_challenge_method |-> "S256"]
    /\ pc' = "l71"
    /\ UNCHANGED <<store, now, guardVars, resp, out, exited, exitStatus, uncaught,
                   loginVars, prev, port, attempts, token_urlsafe, data, unitVars, logouts, features>>

\* the process ends with an exception nothing caught: traceback, status 1
Crash ==
    /\ pc' = "exited"
    /\ exited' = TRUE
    /\ exitStatus' = 1
    /\ uncaught' = TRUE

\* line 71: httpd = socketserver.TCPServer(("", server_port), RedirectHandler)
StartServerBind ==
    /\ pc = "l71"
    /\ \E port_free \in BOOLEAN :
         IF port_free
         THEN /\ httpd' = [httpd EXCEPT !.bound = TRUE]
              /\ pc' = "l72"
              /\ UNCHANGED <<exited, exitStatus, uncaught>>
         ELSE \* OSError: address already in use
              /\ httpd' = httpd
              /\ Crash
    /\ UNCHANGED <<extraVars, store, now, cmd, guardVars, resp, out, mainVars, srv, cur,
                   backlog, sent, code_queue, code_ready_event, shut, responded,
                   delivered>>

\* a start_auth_server that returns without starting the serving thread
StartServerThreadOmitted ==
    /\ pc = "l72"
    /\ pc' = "l121"
    /\ UNCHANGED <<extraVars, store, now, cmd, guardVars, resp, out, exited, exitStatus,
                   uncaught, mainVars, serverVars>>

\* lines 72-74: the serving thread is started
StartServerThread ==
    /\ pc = "l72"
    /\ srv' = "started"
    /\ pc' = "l121"
    /\ UNCHANGED <<extraVars, store, now, cmd, guardVars, resp, out, exited, exitStatus,
                   uncaught, mainVars, httpd, cur, backlog, sent, code_queue,
                   code_ready_event, shut, responded, delivered>>

\* line 121: webbrowser.open_new(authorization_url); line 80: start_time = time.time()
OpenBrowser ==
    /\ pc = "l121"
    /\ browserOpened' = TRUE
    /\ elapsed' = 0
    /\ pc' = "l82"
    /\ UNCHANGED <<extraVars, store, now, cmd, guardVars, resp, out, exited, exitStatus,
                   uncaught, serverVars, authorization_code, interrupted, joined,
                   exchangePosts, cli_response>>

\* line 82: while not code_ready_event.is_set() and (time.time() - start_time) < timeout
WaitContinues(is_set, secs) == ~is_set /\ secs < timeout

WaitCondition ==
    /\ pc = "l82"
    /\ pc' = IF WaitContinues(code_ready_event, elapsed) THEN "l84" ELSE "l88"
    /\ UNCHANGED <<extraVars, store, now, cmd, guardVars, resp, out, exited, exitStatus,
                   uncaught, loginVars>>

\* lines 83-86: code_ready_event.wait(timeout=1), left early when the event is set
\* or a KeyboardInterrupt arrives
WaitPoll ==
    /\ pc = "l84"
    /\ \/ \E d \in {0, WaitJump} :
            /\ code_ready_event \/ d > 0
            /\ elapsed' = elapsed + d
            /\ pc' = "l82"
            /\ interrupted' = interrupted
       \/ /\ interrupted' = TRUE
          /\ elapsed' = elapsed
          /\ pc' = "l88"
    /\ UNCHANGED <<extraVars, store, now, cmd, guardVars, resp, out, exited, exitStatus,
                   uncaught, serverVars, authorization_code, joined, browserOpened,
                   exchangePosts, cli_response>>

\* lines 82 and 88 are outside the try of lines 83-86: a KeyboardInterrupt raised
\* while the loop condition or the test after the loop is evaluated leaves
\* wait_for_code and login as an exception, past lines 162-173
WaitInterrupted ==
    /\ pc \in {"l82", "l88"}
    /\ interrupted' = TRUE
    /\ Crash
    /\ UNCHANGED <<extraVars, store, now, cmd, guardVars, resp, out, serverVars,
                   authorization_code, elapsed, joined, browserOpened,
                   exchangePosts, cli_response>>

\* a wait_for_code that takes the newest code out of the queue
WaitResultNewest ==
    /\ pc = "l88"
    /\ IF code_ready_event
       THEN /\ code_queue # <<>>
            /\ authorization_code' = <<code_queue[Len(code_queue)]>>
            /\ code_queue' = SubSeq(code_queue, 1, Len(code_queue) - 1)
       ELSE /\ authorization_code' = <<>>
            /\ code_queue' = code_queue
    /\ pc' = "l125"
    /\ UNCHANGED <<extraVars, store, now, cmd, guardVars, resp, out, exited, exitStatus,
                   uncaught, httpd, srv, cur, backlog, sent, code_ready_event, shut,
                   responded, delivered, elapsed, interrupted, joined, browserOpened,
                   exchangePosts, cli_response>>

\* lines 88-91: if code_ready_event.is_set(): return code_queue.get(); return None
WaitResult ==
    /\ pc = "l88"
    /\ IF code_ready_event
       THEN /\ code_queue # <<>>
            /\ authorization_code' = <<Head(code_queue)>>
            /\ code_queue' = Tail(code_queue)
       ELSE /\ authorization_code' = <<>>
            /\ code_queue' = code_queue
    /\ pc' = "l125"
    /\ UNCHANGED <<extraVars, store, now, cmd, guardVars, resp, out, exited, exitStatus,
                   uncaught, httpd, srv, cur, backlog, sent, code_ready_event, shut,
                   responded, delivered, elapsed, interrupted, joined, browserOpened,
                   exchangePosts, cli_response>>

\* lines 125 and 162-168: if authorization_code: ... else: "Login failed."
LoginBranch ==
    /\ pc = "l125"
    /\ IF authorization_code # <<>>
       THEN pc' = "l134" /\ cli_response' = cli_response
       ELSE pc' = "l170" /\ cli_response' = "Login failed."
    /\ UNCHANGED <<extraVars, store, now, cmd, guardVars, resp, out, exited, exitStatus,
                   uncaught, serverVars, authorization_code, elapsed, interrupted,
                   joined, browserOpened, exchangePosts>>

\* line 134: response = requests.post(token_endpoint, data=data)
ExchangePost ==
    /\ pc = "l134"
    /\ exchangePosts' = exchangePosts + 1
    /\ data' = [grant_type |-> "authorization_code",
                client_id |-> "avalanchecli",
                redirect_uri |-> redirect_uri,
                code |-> authorization_code[1],
                code_verifier |-> code_verifier]
    /\ \/ \E r \in Responses(now) :
            /\ resp' = r
            /\ pc' = "l146"
            /\ UNCHANGED <<exited, exitStatus, uncaught>>
       \/ \* the request itself fails
          /\ resp' = resp
          /\ Crash
    /\ UNCHANGED <<prev, port, attempts, token_urlsafe, code_verifier, params,
                   store, now, cmd,
                   guardVars, out, serverVars, authorization_code, elapsed,
                   interrupted, joined, browserOpened, cli_response, unitVars, logouts, features>>

\* a login that sends the code again when the answer cannot be used
ExchangeParseRetrying ==
    /\ pc = "l146"
    /\ LET r == from_response(store, resp, TRUE) IN
         /\ store' = r.store
         /\ IF r.res.ok
            THEN cli_response' = "Login successful." /\ pc' = "l170"
            ELSE cli_response' = cli_response /\ pc' = "l134"
    /\ UNCHANGED <<extraVars, now, cmd, guardVars, resp, out, exited, exitStatus,
                   uncaught, serverVars, authorization_code, elapsed, interrupted,
                   joined, browserOpened, exchangePosts>>

\* lines 146-160: Token.from_response(response, save=True), then the success message
ExchangeParse ==
    /\ pc = "l146"
    /\ LET r == from_response(store, resp, TRUE) IN
         /\ store' = r.store
         /\ IF r.res.ok
            THEN /\ cli_response' = "Login successful."
                 /\ pc' = "l170"
                 /\ UNCHANGED <<exited, exitStatus, uncaught>>
            ELSE /\ cli_response' = cli_response
                 /\ Crash
    /\ UNCHANGED <<extraVars, now, cmd, guardVars, resp, out, serverVars, authorization_code,
                   elapsed, interrupted, joined, browserOpened, exchangePosts>>

\* a shutdown that waits for a stop later than its own request
LoginShutdownResetting ==
    /\ pc = "l170"
    /\ httpd' = [httpd EXCEPT !.shutdown_request = TRUE, !.is_shut_down = FALSE]
    /\ pc' = "l170w"
    /\ UNCHANGED <<extraVars, store, now, cmd, guardVars, resp, out, exited,
                   exitStatus, uncaught, mainVars, srv, cur, backlog, sent,
                   code_queue, code_ready_event, shut, responded, delivered>>

\* line 170: httpd.shutdown() sets __shutdown_request
LoginShutdown ==
    /\ pc = "l170"
    /\ httpd' = [httpd EXCEPT !.shutdown_request = TRUE]
    /\ pc' = "l170w"
    /\ UNCHANGED <<extraVars, store, now, cmd, guardVars, resp, out, exited, exitStatus,
                   uncaught, mainVars, srv, cur, backlog, sent, code_queue,
                   code_ready_event, shut, responded, delivered>>

\* line 170: httpd.shutdown() waits for __is_shut_down
LoginShutdownReturn ==
    /\ pc = "l170w"
    /\ httpd.is_shut_down
    /\ pc' = "l171"
    /\ UNCHANGED <<extraVars, store, now, cmd, guardVars, resp, out, exited, exitStatus,
                   uncaught, loginVars>>

\* line 171: server_thread.join()
LoginJoin ==
    /\ pc = "l171"
    /\ srv = "ended"
    /\ joined' = TRUE
    /\ pc' = "l173"
    /\ UNCHANGED <<extraVars, store, now, cmd, guardVars, resp, out, exited, exitStatus,
                   uncaught, serverVars, authorization_code, elapsed, interrupted,
                   browserOpened, exchangePosts, cli_response>>

\* decoded_jwt.get(key): the claim, or nothing
Get(decoded_jwt, key) ==
    IF key \in DOMAIN decoded_jwt THEN <<decoded_jwt[key]>> ELSE <<>>

\* lines 152-155: user_info, from the claims of the Access token of the response
\* (tokens is the triple Token.from_response returned)
user_info(tokens) ==
    [id |-> Get(tokens[2].decoded_jwt, "sub"),
     username |-> Get(tokens[2].decoded_jwt, "preferred_username"),
     email |-> Get(tokens[2].decoded_jwt, "email"),
     name |-> Get(tokens[2].decoded_jwt, "name")]

\* line 173: click.echo(json.dumps(cli_response, indent=2)); login returns
LoginEcho ==
    /\ pc = "l173"
    /\ out' = Append(out, IF cli_response = "Login successful."
                          THEN [message |-> cli_response,
                                user |-> user_info(from_response(store, resp, FALSE).res.val)]
                          ELSE [error |-> cli_response])
    /\ pc' = "exited"
    /\ exited' = TRUE
    /\ exitStatus' = 0
    /\ UNCHANGED <<extraVars, store, now, cmd, guardVars, resp, uncaught, loginVars>>

Next ==
    \/ Tick
    \/ Corrupt
    \/ Invoke
    \/ Finish
    \/ GuardLoad
    \/ GuardDerive
    \/ GuardNearExpiry
    \/ GuardReload
    \/ GuardFinal
    \/ GuardPassType
    \/ GuardCall
    \/ HandleError
    \/ RefreshLoad
    \/ RefreshPost
    \/ RefreshResult
    \/ ProtectedRun
    \/ LogoutPost
    \/ SessionLoadAccess
    \/ SessionPrint

Spec == Init /\ [][Next]_vars

(* login alone: one attempt, started with or without an earlier session stored *)
EarlierSession == [t \in TokenType |-> Jwt(3 * TickSecs, "s0")]

InitLogin ==
    /\ store \in {Clear(EarlierSession), EarlierSession,
                  [EarlierSession EXCEPT !["ACCESS"] = None]}
    /\ CommandInit
    /\ LoginInit
    /\ ExtraInit
    /\ token_urlsafe \in Verifiers

NextLogin ==
    \/ LoginInvoke
    \/ StartServerBind
    \/ StartServerThread
    \/ OpenBrowser
    \/ WaitCondition
    \/ WaitPoll
    \/ WaitInterrupted
    \/ WaitResult
    \/ LoginBranch
    \/ ExchangePost
    \/ ExchangeParse
    \/ LoginShutdown
    \/ LoginShutdownReturn
    \/ LoginJoin
    \/ LoginEcho
    \/ SendRequest
    \/ ServeEnter
    \/ ServeLoop
    \/ ServeFinally
    \/ HandlerTest
    \/ HandlerPut
    \/ HandlerRespond
    \/ HandlerSetEvent
    \/ HandlerSpawnShutdown
    \/ ShutdownThreadRequest
    \/ ShutdownThreadReturn

SpecLogin == InitLogin /\ [][NextLogin]_vars

(* one command, login or a guarded one, run once from a stored session or none *)
NextAttempt ==
    \/ Invoke
    \/ GuardLoad
    \/ GuardDerive
    \/ GuardNearExpiry
    \/ GuardReload
    \/ GuardFinal
    \/ GuardPassType
    \/ GuardCall
    \/ HandleError
    \/ RefreshLoad
    \/ RefreshPost
    \/ RefreshResult
    \/ ProtectedRun
    \/ LogoutPost
    \/ SessionLoadAccess
    \/ SessionPrint
    \/ NextLogin

SpecAttempt == InitLogin /\ [][NextAttempt]_vars

(* login run twice: after an attempt whose wait ended without a code, the user *)
(* runs login again; prev keeps how the first attempt ended                    *)
\* how the attempt that has just terminated ended
ThisAttempt ==
    [cancelled |-> interrupted,
     wait_result |-> authorization_code,
     report |-> out,
     reported |-> ~uncaught,
     torn_down |-> srv = "ended" /\ joined]

LoginAgain ==
    /\ cmd = "login"
    /\ pc = "exited"
    /\ browserOpened
    /\ authorization_code = <<>>
    /\ prev = None
    /\ prev' = ThisAttempt
    /\ cmd' = "none"
    /\ pc' = "idle"
    /\ out' = <<>>
    /\ exited' = FALSE
    /\ exitStatus' = 0
    /\ uncaught' = FALSE
    /\ httpd' = NoServer
    /\ srv' = "none"
    /\ cur' = NoRequest
    /\ backlog' = <<>>
    /\ sent' = 0
    /\ code_queue' = <<>>
    /\ code_ready_event' = FALSE
    /\ shut' = <<>>
    /\ responded' = <<>>
    /\ delivered' = <<>>
    /\ elapsed' = 0
    /\ interrupted' = FALSE
    /\ joined' = FALSE
    /\ browserOpened' = FALSE
    /\ cli_response' = "none"
    /\ code_verifier' = ""
    /\ params' = None
    /\ data' = None
    /\ UNCHANGED <<store, now, guardVars, resp, authorization_code, exchangePosts,
                   port, attempts, token_urlsafe, unitVars, logouts, features>>

NextLoginTwice ==
    \/ NextLogin
    \/ LoginAgain

SpecLoginTwice == InitLogin /\ [][NextLoginTwice]_vars

(* one login attempt from an empty store, with every thread of the process *)
(* scheduled again and again; requests and interrupts come as they will    *)
InitFresh ==
    /\ store = Clear(EarlierSession)
    /\ CommandInit
    /\ LoginInit
    /\ ExtraInit
    /\ token_urlsafe = "v1"

FairLogin ==
    /\ WF_vars(StartServerBind) /\ WF_vars(StartServerThread)
    /\ WF_vars(OpenBrowser) /\ WF_vars(WaitCondition) /\ WF_vars(WaitPoll)
    /\ WF_vars(WaitResult) /\ WF_vars(LoginBranch) /\ WF_vars(ExchangePost)
    /\ WF_vars(ExchangeParse) /\ WF_vars(LoginShutdown)
    /\ WF_vars(LoginShutdownReturn) /\ WF_vars(LoginJoin) /\ WF_vars(LoginEcho)
    /\ WF_vars(ServeEnter) /\ WF_vars(ServeLoop) /\ WF_vars(ServeFinally)
    /\ WF_vars(HandlerTest) /\ WF_vars(HandlerPut) /\ WF_vars(HandlerRespond)
    /\ WF_vars(HandlerSetEvent) /\ WF_vars(HandlerSpawnShutdown)
    /\ WF_vars(ShutdownThreadRequest) /\ WF_vars(ShutdownThreadReturn)

SpecLoginFair == InitFresh /\ [][NextLogin]_vars /\ FairLogin

(* ------------------------------------------------------------------ *)
(* Two login processes side by side, sharing port 49200 and the keyring *)
(* (what the listener does between OpenBrowser and the end of the wait  *)
(* is in SpecLogin; here the wait ends with a code or without one)      *)
(* ------------------------------------------------------------------ *)
\* a socket option that lets a second socket bind the port while the first holds it
port_free_reuse(holder) == TRUE

\* login.py:71  TCPServer(("", server_port), ...) binds without address reuse:
\* the bind succeeds only while no other socket holds the port
port_free(holder) == holder = 0

\* the process of attempt p ends: its socket is closed with it
EndProcess(p, status, failed) ==
    /\ attempts' = [attempts EXCEPT ![p].pc = "exited", ![p].bound = FALSE,
                                    ![p].exitStatus = status,
                                    ![p].uncaught = failed]
    /\ port' = IF port = p THEN 0 ELSE port

\* lines 96-118
TwoInvoke(p) ==
    /\ attempts[p].pc = "idle"
    /\ attempts' = [attempts EXCEPT ![p].pc = "l71"]
    /\ UNCHANGED <<store, now, tokenVars, loginVars, prev, port, pkceVars, unitVars, logouts, features>>

\* line 71: the bind, or OSError (address already in use) which nothing catches
TwoBind(p) ==
    /\ attempts[p].pc = "l71"
    /\ IF port_free(port)
       THEN /\ port' = p
            /\ attempts' = [attempts EXCEPT ![p].pc = "l72", ![p].bound = TRUE]
       ELSE /\ port' = port
            /\ attempts' = [attempts EXCEPT ![p].pc = "exited",
                                            ![p].bindFailed = TRUE,
                                            ![p].exitStatus = 1,
                                            ![p].uncaught = TRUE]
    /\ UNCHANGED <<store, now, tokenVars, loginVars, prev, pkceVars, unitVars, logouts, features>>

\* lines 72-74
TwoStartThread(p) ==
    /\ attempts[p].pc = "l72"
    /\ attempts' = [attempts EXCEPT ![p].pc = "l121"]
    /\ UNCHANGED <<store, now, tokenVars, loginVars, prev, port, pkceVars, unitVars, logouts, features>>

\* line 121
TwoOpenBrowser(p) ==
    /\ attempts[p].pc = "l121"
    /\ attempts' = [attempts EXCEPT ![p].pc = "l82", ![p].browserOpened = TRUE]
    /\ UNCHANGED <<store, now, tokenVars, loginVars, prev, port, pkceVars, unitVars, logouts, features>>

\* line 123: wait_for_code returns a code, or None after the deadline or an interrupt
TwoWait(p) ==
    /\ attempts[p].pc = "l82"
    /\ \E got \in BOOLEAN :
         attempts' = [attempts EXCEPT ![p].pc = "l125", ![p].waited = TRUE,
                                      ![p].code = got]
    /\ UNCHANGED <<store, now, tokenVars, loginVars, prev, port, pkceVars, unitVars, logouts, features>>

\* lines 125-168: the exchange and Token.from_response(response, save=True), or
\* the failure message
TwoExchange(p) ==
    /\ attempts[p].pc = "l125"
    /\ IF attempts[p].code
       THEN \E r \in Responses(now) :
              LET x == from_response(store, r, TRUE) IN
                /\ store' = x.store
                /\ IF x.res.ok
                   THEN /\ attempts' = [attempts EXCEPT ![p].pc = "l170"]
                        /\ port' = port
                   ELSE EndProcess(p, 1, TRUE)
       ELSE /\ store' = store
            /\ attempts' = [attempts EXCEPT ![p].pc = "l170"]
            /\ port' = port
    /\ UNCHANGED <<now, tokenVars, loginVars, prev, pkceVars, unitVars, logouts, features>>

\* lines 170-171: httpd.shutdown() and server_thread.join()
TwoTeardown(p) ==
    /\ attempts[p].pc = "l170"
    /\ attempts' = [attempts EXCEPT ![p].pc = "l173"]
    /\ UNCHANGED <<store, now, tokenVars, loginVars, prev, port, pkceVars, unitVars, logouts, features>>

\* line 173: the message is written, login returns and the process ends
TwoReturn(p) ==
    /\ attempts[p].pc = "l173"
    /\ EndProcess(p, 0, FALSE)
    /\ UNCHANGED <<store, now, tokenVars, loginVars, prev, pkceVars, unitVars, logouts, features>>

NextTwoLogins ==
    \E p \in Procs :
        \/ TwoInvoke(p)
        \/ TwoBind(p)
        \/ TwoStartThread(p)
        \/ TwoOpenBrowser(p)
        \/ TwoWait(p)
        \/ TwoExchange(p)
        \/ TwoTeardown(p)
        \/ TwoReturn(p)

SpecTwoLogins == InitLogin /\ [][NextTwoLogins]_vars

(* ------------------------------------------------------------------ *)
(* A Token on its own (core/token.py:18-34): constructed from a JWT,   *)
(* then asked about its expiry as the clock runs                       *)
(* ------------------------------------------------------------------ *)
\* exp claims of the JWTs a Token is constructed from, in seconds: around the
\* clock readings, around the default threshold after them, and an hour later
Exps == { ProbeSecs - 1, ProbeSecs, ProbeSecs + 1,
          ProbeSecs + threshold_secs - 1, ProbeSecs + threshold_secs,
          ProbeSecs + threshold_secs + 1, ProbeSecs + 3600 }

\* values passed as threshold_secs
Thresholds == {0, 1, threshold_secs}

\* token.py:18-23  Token(encoded_jwt, token_type)
TokenConstruct ==
    /\ pc = "idle"
    /\ subject = None
    /\ \E exp \in Exps, token_type \in TokenType :
          subject' = NewToken(Jwt(exp, "s0"), token_type).val
    /\ UNCHANGED <<store, now, tokenVars, loginVars, prev, port, attempts, pkceVars,
                   asked, logouts, features>>

\* datetime.datetime.now(timezone.utc) moves on by one tick
ClockTick ==
    /\ subject # None
    /\ now < ProbeSecs * TicksPerSec + 1
    /\ now' = now + 1
    /\ UNCHANGED <<store, tokenVars, loginVars, extraVars>>

\* token.py:25-26
CallIsExpired ==
    /\ subject # None
    /\ asked' = [method |-> "is_expired", at |-> now, threshold |-> 0,
                  result |-> <<is_expired(subject, now)>>]
    /\ UNCHANGED <<store, now, tokenVars, loginVars, prev, port, attempts, pkceVars,
                   subject, logouts, features>>

\* token.py:28-30
CallIsAboutToExpire ==
    /\ subject # None
    /\ \E threshold \in Thresholds :
          asked' = [method |-> "is_about_to_expire", at |-> now,
                     threshold |-> threshold,
                     result |-> is_about_to_expire(subject, now, threshold)]
    /\ UNCHANGED <<store, now, tokenVars, loginVars, prev, port, attempts, pkceVars,
                   subject, logouts, features>>

NextToken ==
    \/ TokenConstruct
    \/ ClockTick
    \/ CallIsExpired
    \/ CallIsAboutToExpire

SpecToken == InitFresh /\ [][NextToken]_vars

(* ------------------------------------------------------------------ *)
(* A Token and the keyring (core/token.py:36-81): from_jwt, save and   *)
(* from_type called on their own                                       *)
(* ------------------------------------------------------------------ *)
\* what may be handed to from_jwt as encoded_jwt
Jwts == {None, Garbage, JwtNoExp("s1"), Jwt(2 * TickSecs, "s1")}

\* token.py:54-62  Token.from_jwt(encoded_jwt, token_type, save)
CallFromJwt ==
    /\ pc = "idle"
    /\ subject = None
    /\ \E encoded_jwt \in Jwts, token_type \in TokenType, save \in BOOLEAN :
          LET r == from_jwt(store, encoded_jwt, token_type, save) IN
            /\ store' = r.store
            /\ subject' = IF r.res.ok THEN r.res.val ELSE subject
            /\ asked' = [method |-> "from_jwt", encoded_jwt |-> encoded_jwt,
                         token_type |-> token_type, save |-> save,
                         before |-> store, result |-> r.res]
    /\ UNCHANGED <<now, tokenVars, loginVars, prev, port, attempts, pkceVars,
                   logouts, features>>

\* token.py:36-39  token.save()
CallSave ==
    /\ pc = "idle"
    /\ subject # None
    /\ store' = Save(store, subject)
    /\ asked' = [method |-> "save", token_type |-> subject.token_type,
                 before |-> store, result |-> Ok(None)]
    /\ UNCHANGED <<now, tokenVars, loginVars, prev, port, attempts, pkceVars,
                   subject, logouts, features>>

\* token.py:64-81  Token.from_type(token_type)
CallFromType ==
    /\ pc = "idle"
    /\ \E token_type \in TokenType :
          LET r == from_type(store, token_type, <<>>) IN
            /\ store' = r.store
            /\ asked' = [method |-> "from_type", token_type |-> token_type,
                         before |-> store, result |-> r.res,
                         after |-> IF asked = None THEN "none" ELSE asked.method]
    /\ UNCHANGED <<now, tokenVars, loginVars, prev, port, attempts, pkceVars,
                   subject, logouts, features>>

NextStore ==
    \/ CallFromJwt
    \/ CallSave
    \/ CallFromType

SpecStore == Init /\ [][NextStore]_vars

(* ------------------------------------------------------------------ *)
(* Two logout processes on one keyring (logout.py:9-47 under           *)
(* Token.require, token.py:137-171), one keyring call per step         *)
(* ------------------------------------------------------------------ *)
\* token.py:12-15, 100  "for token_type in TokenType" goes in definition order
TokenOrder == <<"ID", "ACCESS", "REFRESH">>

\* token.py:91-93  response_data.get(...) of the slot saved as type t
ResponseSlot(response, t) ==
    CASE t = "ID" -> response.body.id_token
      [] t = "ACCESS" -> response.body.access_token
      [] t = "REFRESH" -> response.body.refresh_token

\* process p starts Token.clear(); what follows it is "raise" (from_type raises
\* to the wrapper, which calls handle_error), "exit1" (handle_error's sys.exit(1))
\* or "exit0" (logout echoes and returns)
BeginClear(p, then) ==
    [logouts EXCEPT ![p].pc = "clear", ![p].k = 1, ![p].then = then]

\* logout is invoked: the wrapper of Token.require begins
LogoutStart(p) ==
    /\ logouts[p].pc = "idle"
    /\ logouts' = [logouts EXCEPT ![p].pc = "g146"]
    /\ UNCHANGED <<store, now, tokenVars, loginVars, prev, port, attempts, pkceVars,
                   unitVars, features>>

\* lines 146, 110 and 156: Token.from_type(TokenType.REFRESH), one get_password
LogoutLoad(p) ==
    /\ logouts[p].pc \in {"g146", "r110", "g156"}
    /\ LET encoded_jwt == store["REFRESH"]
           obj == NewToken(encoded_jwt, "REFRESH")
       IN  logouts' =
             IF encoded_jwt = None THEN BeginClear(p, "raise")
             ELSE IF ~obj.ok THEN BeginClear(p, "exit1")
             ELSE IF logouts[p].pc = "r110" THEN [logouts EXCEPT ![p].pc = "r128"]
             ELSE IF logouts[p].pc = "g156"
                  THEN [logouts EXCEPT ![p].pc = "g158", ![p].token = obj.val]
             ELSE [logouts EXCEPT ![p].token = obj.val,
                                  ![p].pc = IF NearExpiryTest(obj.val, now, FALSE)
                                            THEN "r110" ELSE "g158"]
    /\ UNCHANGED <<store, now, tokenVars, loginVars, prev, port, attempts, pkceVars,
                   unitVars, features>>

\* token.py:100-105  one delete_password of Token.clear, errors ignored
LogoutClearStep(p) ==
    /\ logouts[p].pc = "clear"
    /\ store' = [store EXCEPT ![TokenOrder[logouts[p].k]] = None]
    /\ logouts' =
         IF logouts[p].k < Len(TokenOrder)
         THEN [logouts EXCEPT ![p].k = logouts[p].k + 1]
         ELSE IF logouts[p].then = "raise" THEN BeginClear(p, "exit1")
         ELSE [logouts EXCEPT ![p].pc = "exited",
                              ![p].exitStatus = IF logouts[p].then = "exit1"
                                                THEN 1 ELSE 0]
    /\ UNCHANGED <<now, tokenVars, loginVars, prev, port, attempts, pkceVars,
                   unitVars, features>>

\* token.py:128-135 and 86-89: the refresh request and the tests before the
\* first token is built
LogoutRefreshPost(p) ==
    /\ logouts[p].pc = "r128"
    /\ \E r \in Responses(now) :
          logouts' =
            IF r.status # 200 \/ r.ctype # "application/json" \/ ~r.json
            THEN BeginClear(p, "exit1")
            ELSE [logouts EXCEPT ![p].pc = "save", ![p].k = 1, ![p].resp = r]
    /\ UNCHANGED <<store, now, tokenVars, loginVars, prev, port, attempts, pkceVars,
                   unitVars, features>>

\* token.py:91-93  one from_jwt(..., save=True) of from_response
LogoutSaveStep(p) ==
    /\ logouts[p].pc = "save"
    /\ LET t == TokenOrder[logouts[p].k]
           r == from_jwt(store, ResponseSlot(logouts[p].resp, t), t, TRUE)
       IN  /\ store' = r.store
           /\ logouts' =
                IF ~r.res.ok THEN BeginClear(p, "exit1")
                ELSE [logouts EXCEPT
                        ![p].saved = logouts[p].saved + 1,
                        ![p].raced = logouts[p].raced
                                       \/ \E q \in Procs \ {p} : logouts[q].pc = "clear",
                        ![p].k = IF logouts[p].k < Len(TokenOrder)
                                 THEN logouts[p].k + 1 ELSE 0,
                        ![p].pc = IF logouts[p].k < Len(TokenOrder)
                                  THEN "save" ELSE "g156"]
    /\ UNCHANGED <<now, tokenVars, loginVars, prev, port, attempts, pkceVars,
                   unitVars, features>>

\* line 158: if token is None or token.is_expired(): raise ValueError
LogoutFinal(p) ==
    /\ logouts[p].pc = "g158"
    /\ logouts' = IF FinalTest(logouts[p].token, now)
                  THEN BeginClear(p, "exit1")
                  ELSE [logouts EXCEPT ![p].pc = "lo26"]
    /\ UNCHANGED <<store, now, tokenVars, loginVars, prev, port, attempts, pkceVars,
                   unitVars, features>>

\* a logout whose end-session request is not followed by Token.clear()
LogoutEndSessionWithoutClear(p) ==
    /\ logouts[p].pc = "lo26"
    /\ logouts' = [logouts EXCEPT ![p].pc = "exited"]
    /\ UNCHANGED <<store, now, tokenVars, loginVars, prev, port, attempts, pkceVars,
                   unitVars, features>>

\* logout.py:24-42  the end-session request; whatever it does, the finally block
\* calls Token.clear(); an exception raised in the except block (line 36) goes
\* on to handle_error after it
LogoutEndSession(p) ==
    /\ logouts[p].pc = "lo26"
    /\ \E raised \in BOOLEAN :
          logouts' = BeginClear(p, IF raised THEN "raise" ELSE "exit0")
    /\ UNCHANGED <<store, now, tokenVars, loginVars, prev, port, attempts, pkceVars,
                   unitVars, features>>

NextTwoLogouts ==
    \E p \in Procs :
        \/ LogoutStart(p)
        \/ LogoutLoad(p)
        \/ LogoutClearStep(p)
        \/ LogoutRefreshPost(p)
        \/ LogoutSaveStep(p)
        \/ LogoutFinal(p)
        \/ LogoutEndSession(p)

InitTwoLogouts ==
    /\ store \in {EarlierSession, [EarlierSession EXCEPT !["ACCESS"] = None]}
    /\ CommandInit
    /\ LoginInit
    /\ ExtraInit
    /\ token_urlsafe = "v1"

SpecTwoLogouts == InitTwoLogouts /\ [][NextTwoLogouts]_vars

(* ================================================================== *)
(* Properties                                                          *)
(* ================================================================== *)
Empty == [t \in TokenType |-> None]
Terminated == pc = "exited"
\* an exception was raised inside the try block of the Token.require wrapper
GuardFailed == exc.where = "guard"

\* C1: whenever the guard fails (the required token is missing, undecodable or
\* expired, or a refresh fails), then once the process has terminated all three
\* store entries are absent, exactly one message, an error, was emitted, the exit
\* status is 1, and the wrapped operation was not invoked at any point.
C1_GuardFailureClearsAndExits ==
    GuardFailed =>
        /\ funcCalls = 0
        /\ Terminated =>
             /\ store = Empty
             /\ Len(out) = 1
             /\ "error" \in DOMAIN out[1]
             /\ exited
             /\ exitStatus = 1

\* the guard's final check found the required token expired, in a command that
\* had found all three entries stored
C1_Witness ==
    /\ Terminated
    /\ GuardFailed
    /\ exc.e = ValueError("Token invalid. Log in and retry.")
    /\ chk.done
    /\ chk.at > chk.exp
    /\ \A t \in TokenType : store0[t] # None

\* C2: the wrapped operation is invoked only if the guard's final check saw a
\* token of the required type whose expiry is not before the time of the check,
\* and the token handed to the operation is never absent.
C2_InvokedOnlyWithValidToken ==
    funcCalls > 0 =>
        /\ chk.done
        /\ chk.type = g.token_type
        /\ chk.at <= chk.exp
        /\ funcToken # None

\* the operation ran with a token checked at the very second it expires
C2_Witness ==
    /\ funcCalls > 0
    /\ chk.done
    /\ chk.at = chk.exp

\* C3: with auto-refresh not suppressed, the guard starts a refresh from its
\* near-expiry test (line 155) only when the loaded token has less than
\* threshold_secs left; a token with at least 20 s left causes no refresh request.
C3_RefreshOnlyNearExpiry ==
    (pc \in {"r110", "r128", "r129"} /\ ret = "g156") =>
        token.expiration - now < timedelta(threshold_secs)

\* the required type (not Refresh) is missing, a Refresh token that has not
\* expired is stored, and auto-refresh is not suppressed
DeriveCase ==
    /\ pc = "g146"
    /\ g.token_type # "REFRESH"
    /\ ~g.suppress_refresh
    /\ store[g.token_type] = None
    /\ store["REFRESH"] # None
    /\ NewToken(store["REFRESH"], "REFRESH").ok
    /\ ~is_expired(NewToken(store["REFRESH"], "REFRESH").val, now)

\* C4: in that case the guard's load does not fail: it goes on to derive the
\* required token by a refresh.
C4_MissingTokenIsDerived ==
    [][DeriveCase => pc' # "handle_error"]_vars

\* C5: once a command in which the token endpoint answered the refresh request
\* with a status other than 200 has terminated, all three store entries are absent.
C5_RefreshFailureClearsAll ==
    (Terminated /\ resp # None /\ resp.status # 200) => store = Empty

\* a refresh answered 400 in a command that had found all three entries stored
C5_Witness ==
    /\ Terminated
    /\ resp # None
    /\ resp.status = 400
    /\ \A t \in TokenType : store0[t] # None

\* C6: a command that met a token error (an exception was raised by the guard or
\* by the command's own token loading) ends with all three entries absent;
\* Token.from_type on a missing entry returns with all three entries deleted; and
\* session show started with Refresh stored and Access missing ends with an
\* empty store.
C6_TokenErrorClearsAll ==
    /\ (Terminated /\ exc.e # None) => store = Empty
    /\ \A t \in TokenType :
         store[t] = None => from_type(store, t, <<>>).store = Empty
    /\ (Terminated /\ cmd = "session_show" /\ store0["REFRESH"] # None
          /\ store0["ACCESS"] = None) => store = Empty

\* session show ended after finding Refresh and ID stored but no Access entry
C6_Witness ==
    /\ Terminated
    /\ cmd = "session_show"
    /\ funcCalls = 1
    /\ exc.where = "body"
    /\ store0["REFRESH"] # None
    /\ store0["ID"] # None
    /\ store0["ACCESS"] = None

\* the login attempt ended in a failure: the bind failed, no code arrived (timeout
\* or interrupt), or the exchange or the decoding of its answer failed
LoginFailed ==
    /\ cmd = "login"
    /\ Terminated
    /\ (uncaught \/ cli_response = "Login failed.")

\* C7: after a login attempt that ended in a failure all three store entries
\* are absent.
C7_LoginFailureClearsStore ==
    LoginFailed => store = Empty

\* C8: when login returns or terminates after the listener was started, the serve
\* loop has stopped, its thread has been joined and the socket is no longer bound.
C8_ListenerTornDownAtReturn ==
    (cmd = "login" /\ Terminated /\ browserOpened) =>
        /\ srv = "ended"
        /\ joined
        /\ ~httpd.bound

\* C9: in one login attempt at most one code is ever put into the handoff.
C9_AtMostOneCodeDelivered ==
    Len(delivered) <= 1

\* C10: a request whose path is not the registered callback path, or which
\* carries no code, is ignored: the handler never goes on to deliver a code, set
\* the event or start a shutdown for it.
C10_OtherRequestsIgnored ==
    srv \in {"h63", "h64", "h68", "h69"} =>
        /\ PathIsExactly(cur.path)
        /\ QueryCode(cur.query) # <<>>

\* C11: in the redirect handler the 200 response is written before the shutdown
\* of the listener is requested, and the shutdown is requested from a thread of
\* its own: the handler only starts that thread and returns to the serve loop,
\* and the thread running the serve loop is never the one that sets the shutdown
\* request and waits for the loop to stop.
C11_ResponseBeforeShutdownFromOtherThread ==
    [][ /\ Len(shut') > Len(shut) =>
              /\ Len(responded) > Len(shut)
              /\ srv = "h69"
              /\ srv' = "while"
              /\ httpd' = httpd
        /\ (httpd'.shutdown_request /\ ~httpd.shutdown_request) => srv' = srv
      ]_vars

\* the handler answered the request carrying c1 and returned to the serve loop;
\* the thread it started has requested the shutdown and waits for the loop to stop
C11_Witness ==
    /\ responded = <<"c1">>
    /\ Len(shut) = 1
    /\ shut[1] = "waiting"
    /\ srv = "while"
    /\ httpd.shutdown_request
    /\ pc # "l170w"
\* the attempts that hold a listener bound to port 49200
Holders == {p \in Procs : attempts[p].bound}

\* C12: of two login attempts running side by side at most one ever holds the
\* listener bound to port 49200; every attempt that got past the bind holds it;
\* an attempt whose bind fails has terminated right there with an error (status
\* 1), without opening the browser and without entering the wait.
C12_SecondLoginFailsFast ==
    /\ Cardinality(Holders) <= 1
    /\ \A p \in Procs :
         /\ attempts[p].pc \notin {"idle", "l71", "exited"} => p \in Holders
         /\ attempts[p].bindFailed =>
              /\ attempts[p].pc = "exited"
              /\ attempts[p].exitStatus = 1
              /\ attempts[p].uncaught
              /\ ~attempts[p].browserOpened
              /\ ~attempts[p].waited

\* attempt 1 waits for its code with the listener bound; the bind of attempt 2
\* has failed
C12_Witness ==
    /\ attempts[1].pc = "l82"
    /\ attempts[1].bound
    /\ attempts[2].bindFailed
    /\ attempts[2].pc = "exited"
\* the answer to the code exchange is not a success: a status other than 200, a
\* body that is not a JSON object, or one of the three tokens missing from it
ExchangeRejected ==
    /\ cmd = "login"
    /\ resp # None
    /\ \/ resp.status # 200
       \/ ~resp.json
       \/ resp.body.id_token = None
       \/ resp.body.access_token = None
       \/ resp.body.refresh_token = None

\* C13: when the token endpoint answers the code exchange with a non-success
\* status or without all three tokens, the attempt is a hard failure: once login
\* has terminated the store holds nothing that came from that response (it is as
\* it was before the attempt) and no success was reported.
C13_RejectedExchangePersistsNothing ==
    (ExchangeRejected /\ Terminated) =>
        /\ store = store0
        /\ cli_response # "Login successful."
        /\ \A i \in DOMAIN out : "message" \notin DOMAIN out[i]
\* C14: nothing is retried. One login attempt sends at most one code exchange
\* request, so an authorization code is never sent twice; one invocation of the
\* guard, and so one call of Token.refresh, sends at most one refresh request,
\* whatever the answers are.
C14_NothingIsRetried ==
    /\ exchangePosts <= 1
    /\ refreshPosts <= 1

\* login ended after its one exchange request was answered 502
C14_Witness ==
    /\ cmd = "login"
    /\ Terminated
    /\ uncaught
    /\ resp # None
    /\ resp.status = 502
    /\ exchangePosts = 1
\* the wait of the attempt that has terminated ended without a code, and login
\* went on to report that
EndedWithoutCode ==
    /\ cmd = "login"
    /\ Terminated
    /\ browserOpened
    /\ authorization_code = <<>>
    /\ ~uncaught

\* C15: expiry of the deadline and cancellation by the user are distinct
\* outcomes: of two attempts whose waits ended without a code, one by an
\* interrupt and the other at the deadline, the wait results differ or the
\* reports to the user differ, and both attempts ended with the listener stopped
\* and its thread joined.
C15_TimeoutAndCancelDistinct ==
    (prev # None /\ prev.reported /\ EndedWithoutCode
                 /\ prev.cancelled # interrupted) =>
        /\ prev.report # out
        /\ prev.torn_down
        /\ srv = "ended" /\ joined
\* C16: an interrupt that arrives during the wait ends the wait at that step (the
\* loop is not gone round again until the deadline), and when the attempt then
\* ends without a code the serve loop has stopped and its thread has been joined
\* by the time the outcome is reported or the attempt terminates.
C16_InterruptReachesCleanup ==
    (cmd = "login" /\ interrupted) =>
        /\ pc \notin {"l82", "l84"}
        /\ (authorization_code = <<>> /\ (Terminated \/ out # <<>>)) =>
               (srv = "ended" /\ joined)
\* the attempt ended after a wait that nothing but the deadline ended
TimedOut ==
    /\ cmd = "login"
    /\ Terminated
    /\ browserOpened
    /\ authorization_code = <<>>
    /\ ~interrupted
    /\ ~uncaught

\* C17: when no code arrives the wait ends once the elapsed time has reached the
\* deadline of 300 s (no poll is started at or after it), the attempt resolves
\* as a failed login, and when login has returned the serve loop has stopped, its
\* thread is joined and no socket is left bound to the port.
C17_TimeoutStopsListener ==
    /\ (cmd = "login" /\ pc = "l84") => elapsed < timeout
    /\ TimedOut =>
          /\ elapsed >= timeout
          /\ out = <<[error |-> "Login failed."]>>
          /\ srv = "ended"
          /\ joined
          /\ ~httpd.bound
\* a call of httpd.shutdown() has returned
ShutdownReturned ==
    \/ pc \in {"l171", "l173"}
    \/ \E i \in DOMAIN shut : shut[i] = "done"

\* where the i-th handler-started call of httpd.shutdown() is
ShutState(i) == IF i \in DOMAIN shut THEN shut[i] ELSE "none"

\* C19: shutdown is idempotent. Every call of httpd.shutdown(), login's own at
\* line 170 and each one started by the handler, returns (a handler-started one
\* at the latest when the process ends), also when the serve loop had already
\* stopped or another call is waiting at the same time; and whenever a call has
\* returned the serve loop is stopped and stays so.
C19_ShutdownIdempotent ==
    /\ (pc = "l170w") ~> (pc = "l171")
    /\ \A i \in 1..MaxRequests :
          (ShutState(i) = "waiting") ~> (ShutState(i) = "done" \/ exited)
    /\ [](ShutdownReturned => srv = "ended")

\* login's own shutdown request was made after the serve loop had stopped for the
\* handler-started one, and login waits for it
C19_Witness ==
    /\ pc = "l170w"
    /\ httpd.shutdown_request
    /\ srv = "ended"
    /\ shut = <<"done">>
\* the codes that requests to the registered callback path carry
CallbackCodes ==
    {QueryCode(r.query)[1] :
        r \in {q \in Requests : PathIsExactly(q.path) /\ QueryCode(q.query) # <<>>}}

\* C18: when the wait resolves with the code of a redirect to the callback path,
\* it is exactly the code the handler received (the first it put into the
\* handoff) and that value is what login holds for the exchange; once the event
\* is set no poll is started at or after the deadline; and by the time login's
\* call has ended the serve loop has stopped.
C18_CodeResolvesWaitAndListenerStops ==
    /\ (cmd = "login" /\ authorization_code # <<>>
                      /\ authorization_code[1] \in CallbackCodes) =>
          /\ delivered # <<>>
          /\ authorization_code = <<delivered[1]>>
          /\ Terminated => srv = "ended"
    /\ (cmd = "login" /\ pc = "l84" /\ code_ready_event) => elapsed < timeout
\* C20: the listener goes from Listening through CodeReceived and ShuttingDown
\* (or TimedOut, or Cancelled) to Stopped and nowhere else: once a code has been
\* received the serve loop takes up no further request, and once the serve loop
\* has stopped it never serves again.
C20_ListenerLifecycle ==
    [][ /\ (delivered # <<>> /\ delivered[1] \in CallbackCodes /\ srv' = "do_GET")
               => srv = "do_GET"
        /\ srv = "ended" => srv' = "ended"
      ]_vars
\* login has reported success
LoginSucceeded ==
    /\ cmd = "login"
    /\ Terminated
    /\ out # <<>>
    /\ "message" \in DOMAIN out[Len(out)]

\* C21: after login has reported success the store holds exactly the id_token,
\* access_token and refresh_token strings of the token response under ID,
\* ACCESS and REFRESH, and the result carries the sub, preferred_username, email
\* and name claims of the Access token as id, username, email and name.
C21_SuccessPersistsAllThree ==
    LoginSucceeded =>
        /\ resp # None
        /\ store = [t \in TokenType |->
                      CASE t = "ID" -> resp.body.id_token
                        [] t = "ACCESS" -> resp.body.access_token
                        [] t = "REFRESH" -> resp.body.refresh_token]
        /\ \A t \in TokenType : store[t] # None
        /\ LET claims == decode_jwt(resp.body.access_token).val IN
             out[Len(out)].user = [id |-> <<claims.sub>>,
                                   username |-> <<claims.preferred_username>>,
                                   email |-> <<claims.email>>,
                                   name |-> <<claims.name>>]

\* a login that began with an earlier session stored has reported success
C21_Witness ==
    /\ LoginSucceeded
    /\ store0 = EarlierSession
    /\ store # store0
\* the S256 challenge of a verifier: BASE64URL without padding of SHA256 of the
\* ASCII octets of the verifier
deriveChallenge(verifier) ==
    [b64url_of |-> [sha256_of |-> [bytes |-> verifier]], padding |-> ""]

\* C22: within one login attempt the code_challenge of the authorization URL is
\* deriveChallenge of the verifier of that attempt, which is the code_verifier
\* sent in the exchange; the URL carries client_id=avalanchecli,
\* response_type=code, scope "openid profile email", the redirect_uri and
\* code_challenge_method=S256; the exchange is sent with the same redirect_uri.
C22_ChallengeMatchesVerifier ==
    (cmd = "login") =>
        /\ params.code_challenge = deriveChallenge(code_verifier)
        /\ params.client_id = "avalanchecli"
        /\ params.response_type = "code"
        /\ params.scope = "openid profile email"
        /\ params.redirect_uri.port = 49200
        /\ params.redirect_uri.path = CallbackPath
        /\ params.code_challenge_method = "S256"
        /\ exchangePosts > 0 =>
              /\ data.code_verifier = code_verifier
              /\ deriveChallenge(data.code_verifier) = params.code_challenge
              /\ data.redirect_uri = params.redirect_uri

\* the exchange of an attempt whose verifier is v2 has been sent with code c1
C22_Witness ==
    /\ cmd = "login"
    /\ exchangePosts = 1
    /\ data # None
    /\ data.code = "c1"
    /\ data.code_verifier = "v2"
\* the store entries a token response asks for
ResponseTokens(response) ==
    [t \in TokenType |->
        CASE t = "ID" -> response.body.id_token
          [] t = "ACCESS" -> response.body.access_token
          [] t = "REFRESH" -> response.body.refresh_token]

\* a JSON answer that carries three well-formed tokens
CarriesThreeTokens(response) ==
    /\ response.ctype = "application/json"
    /\ response.json
    /\ \A t \in TokenType : NewToken(ResponseTokens(response)[t], t).ok

\* C23: Token.refresh sends its one request with a stored, well-formed Refresh
\* token loaded. When the answer is 200 with the three tokens, the step that
\* handles it stores the Access, Identity and Refresh tokens of the answer and
\* returns to the caller; when the answer is not 200 that step leaves the store
\* as it is and raises ValueError("Token refresh failed.").
C23_RefreshPersistsOrFails ==
    [][ /\ (pc = "r110" /\ pc' = "r128") => NewToken(store["REFRESH"], "REFRESH").ok
        /\ (pc = "r129" /\ pc' # "r129") =>
              /\ refreshPosts = 1
              /\ (resp.status = 200 /\ CarriesThreeTokens(resp)) =>
                    (store' = ResponseTokens(resp) /\ pc' = ret /\ exc' = exc)
              /\ resp.status # 200 =>
                    /\ store' = store
                    /\ pc' = "handle_error"
                    /\ exc'.e = ValueError("Token refresh failed.")
      ]_vars

\* a refresh answered 200 has replaced all three entries of a stored session and
\* returned to the guard
C23_Witness ==
    /\ pc = "g156"
    /\ resp # None
    /\ resp.status = 200
    /\ store = ResponseTokens(resp)
    /\ \A t \in TokenType : store0[t] # None /\ store0[t] # store[t]
\* a 200 JSON answer that leaves out at least one token slot and whose other
\* slots hold well-formed tokens
OmitsASlot(response) ==
    /\ response.status = 200
    /\ response.ctype = "application/json"
    /\ response.json
    /\ \E t \in TokenType : ResponseTokens(response)[t] = None
    /\ \A t \in TokenType :
          \/ ResponseTokens(response)[t] = None
          \/ NewToken(ResponseTokens(response)[t], t).ok

\* C24: when a 200 refresh answer leaves out one of the three token slots, the
\* refresh still succeeds: the step that handles the answer returns to the
\* caller, stores each token the answer carries, and leaves the store entry of
\* each omitted slot as it was.
C24_OmittedSlotKeepsEntry ==
    [][ (pc = "r129" /\ pc' # "r129" /\ OmitsASlot(resp)) =>
            /\ pc' = ret
            /\ exc' = exc
            /\ store' = [t \in TokenType |->
                            IF ResponseTokens(resp)[t] = None
                            THEN store[t]
                            ELSE ResponseTokens(resp)[t]]
      ]_vars
\* C25: in an invocation whose guard has auto-refresh suppressed no request goes
\* to the token endpoint and no step writes or replaces a store entry (an entry
\* only ever stays as it is or is deleted); at the moment the guard succeeds and
\* calls the wrapped operation, and when session show ends with status 0, every
\* store entry is as it was before the invocation.
C25_SuppressedGuardOnlyReads ==
    [][ (g.suppress_refresh /\ pc # "idle") =>
            /\ refreshPosts' = 0
            /\ pc' \notin {"r110", "r128", "r129"}
            /\ \A t \in TokenType : store'[t] \in {store[t], None}
            /\ funcCalls' = funcCalls + 1 => store' = store0
            /\ (cmd = "session_show" /\ pc' = "exited" /\ exitStatus' = 0 /\ ~uncaught')
                  => store' = store0
      ]_vars

\* session show ran with three stored tokens, its guard passed although the
\* Refresh token was within the threshold of its expiry, and it ended with
\* status 0
C25_Witness ==
    /\ cmd = "session_show"
    /\ g.suppress_refresh
    /\ Terminated
    /\ exitStatus = 0
    /\ funcCalls = 1
    /\ chk.done
    /\ chk.exp - chk.at < timedelta(threshold_secs)
    /\ refreshPosts = 0
    /\ \A t \in TokenType : store[t] # None
    /\ store = store0
\* C26: once an invocation of logout has terminated, however it went (the guard
\* failed, the end-session request succeeded, was answered with an error status,
\* or raised), all three store entries are absent.
C26_LogoutAlwaysClears ==
    (cmd = "logout" /\ Terminated) => store = Empty

\* logout ran on a complete stored session, its end-session request failed, and
\* it has terminated
C26_Witness ==
    /\ cmd = "logout"
    /\ Terminated
    /\ funcCalls = 1
    /\ \A t \in TokenType : store0[t] # None
    /\ out = <<[error |-> "Logout failed, cache cleared."]>>
    /\ store = Empty
\* the structured error messages written so far
ErrorMessages == { i \in DOMAIN out : "error" \in DOMAIN out[i] }

\* the invocation ended in one of the failures of a command: login got no code
\* (deadline or interrupt) or its code exchange failed; logout's end-session
\* request failed; the guard failed
EndedInFailure ==
    /\ Terminated
    /\ \/ cmd = "login" /\ browserOpened /\ cli_response # "Login successful."
       \/ cmd = "logout" /\ funcCalls = 1 /\ out # <<[message |-> "User logged out."]>>
       \/ GuardFailed

\* C27: every invocation that ends in failure (login timing out, being cancelled
\* or failing the code exchange; logout whose end-session request fails; any
\* guard failure) has emitted exactly one structured error message and has a
\* non-zero exit status; exit status 0 occurs only on success.
C27_FailureExitsNonZero ==
    EndedInFailure =>
        /\ Cardinality(ErrorMessages) = 1
        /\ exitStatus # 0
\* a step that loads the entry of type t tolerates partial presence: an absent
\* entry is reported as a ValueError and the store stays as it is; a present,
\* well-formed entry is returned and the store stays as it is
LoadTolerates(t) ==
    /\ store[t] = None =>
          /\ pc' = "handle_error"
          /\ exc'.e.type = "ValueError"
          /\ store' = store
    /\ (store[t] # None /\ NewToken(store[t], t).ok) =>
          /\ pc' # "handle_error"
          /\ store' = store

\* C28: partial presence is tolerated by the read paths. The guard's load of the
\* required type and session show's load of the Access token, in a store where
\* only some of the three types are present, report not-found for an absent type
\* and leave the entries of the other types in place, and return the token of a
\* present type.
C28_PartialPresenceTolerated ==
    [][ /\ (pc = "g146" /\ pc' # "g146") =>
              /\ LoadTolerates(g.token_type)
              /\ NewToken(store[g.token_type], g.token_type).ok =>
                    token' = NewToken(store[g.token_type], g.token_type).val
        /\ (pc = "ss29" /\ pc' # "ss29") => LoadTolerates("ACCESS")
      ]_vars
\* the exp claim of the Token that was asked, in seconds
SubjectExp == subject.decoded_jwt.exp

\* C29: is_expired() is true exactly when the clock reading is strictly greater
\* than the instant of the exp claim: a token with exp = now + 3600 is not
\* expired, one with exp = now - 1 is expired, one with exp = now is not.
C29_ExpiredStrictlyAfterExp ==
    (asked # None /\ asked.method = "is_expired") =>
        /\ asked.result[1] <=> (asked.at > SubjectExp * TicksPerSec)
        /\ SubjectExp * TicksPerSec = asked.at + 3600 * TicksPerSec => ~asked.result[1]
        /\ SubjectExp * TicksPerSec = asked.at - 1 * TicksPerSec => asked.result[1]
        /\ SubjectExp * TicksPerSec = asked.at => ~asked.result[1]

\* a token asked at the very instant of its exp claim, after the clock has run,
\* answered that it is not expired
C29_Witness ==
    /\ asked # None
    /\ asked.method = "is_expired"
    /\ asked.at > 0
    /\ asked.at = SubjectExp * TicksPerSec
    /\ asked.result = <<FALSE>>
\* ticks left until the instant of the exp claim when the Token was asked
SubjectRemaining == SubjectExp * TicksPerSec - asked.at

\* C30: is_about_to_expire(threshold) returns the pair (flag, secondsRemaining):
\* secondsRemaining is exp - now in whole seconds (the part of a second is cut
\* off), and flag is true exactly when the remaining time is strictly less than
\* the threshold; with the default threshold of 20 s a token with
\* exp = now + 3600 gives (false, 3600); every expired token is near expiry for
\* every threshold >= 0.
C30_NearExpiryPair ==
    (asked # None /\ asked.method = "is_about_to_expire") =>
        LET flag == asked.result[1]
            secondsRemaining == asked.result[2]
        IN  /\ Len(asked.result) = 2
            /\ flag <=> (SubjectRemaining < asked.threshold * TicksPerSec)
            /\ SubjectRemaining >= 0 =>
                  /\ secondsRemaining * TicksPerSec <= SubjectRemaining
                  /\ SubjectRemaining < (secondsRemaining + 1) * TicksPerSec
            /\ SubjectRemaining < 0 =>
                  /\ (secondsRemaining - 1) * TicksPerSec < SubjectRemaining
                  /\ SubjectRemaining <= secondsRemaining * TicksPerSec
            /\ (SubjectRemaining = 3600 * TicksPerSec /\ asked.threshold = threshold_secs)
                  => asked.result = <<FALSE, 3600>>
            /\ (is_expired(subject, asked.at) /\ asked.threshold >= 0) => flag

\* after the clock has run, a token with exp an hour ahead was asked with the
\* default threshold and answered (false, 3600)
C30_Witness ==
    /\ asked # None
    /\ asked.method = "is_about_to_expire"
    /\ asked.at > 0
    /\ asked.threshold = threshold_secs
    /\ SubjectRemaining = 3600 * TicksPerSec
    /\ asked.result = <<FALSE, 3600>>
\* a JWT that cannot be decoded, or whose claims hold no exp
Unusable(encoded_jwt) ==
    \/ encoded_jwt = None
    \/ Len(encoded_jwt.parts) # 3
    \/ "exp" \notin DOMAIN encoded_jwt.parts[2]

\* C31: constructing a Token from a JWT that cannot be decoded, or whose claims
\* have no exp, fails; the call of from_jwt that does so writes nothing to the
\* store, also when it was asked to save.
C31_ConstructionFailureWritesNothing ==
    [][ (asked' # asked /\ asked'.method = "from_jwt"
           /\ Unusable(asked'.encoded_jwt)) =>
            /\ ~asked'.result.ok
            /\ subject' = None
            /\ store' = store
      ]_vars

\* from_jwt was called with save=True on a JWT without exp while the keyring held
\* an entry of that type: it failed and the store is as before
C31_Witness ==
    /\ asked # None
    /\ asked.method = "from_jwt"
    /\ asked.save
    /\ asked.encoded_jwt = JwtNoExp("s1")
    /\ ~asked.result.ok
    /\ asked.before[asked.token_type] # None
    /\ store = asked.before
\* C32: store round trip. A save of a token of type t writes the encoded JWT,
\* a string, into the entry of t and leaves the entries of the other two types
\* as they are; a load of type t that follows it returns a token with that
\* encoded JWT and that type, whose claims and expiry are the ones decoded from
\* the JWT, and leaves the store as it is. Every entry of the store is absent or
\* an encoded JWT string.
C32_StoreRoundTrip ==
    [][ /\ \A t \in TokenType : store[t] = None \/ DOMAIN store[t] = {"kind", "parts"}
        /\ (asked' # asked /\ asked'.method = "save") =>
              /\ store'[subject.token_type] = subject.encoded_jwt
              /\ \A t \in TokenType \ {subject.token_type} : store'[t] = store[t]
        /\ (asked # None /\ asked.method = "save" /\ asked' # asked
              /\ asked'.method = "from_type"
              /\ asked'.token_type = subject.token_type) =>
              /\ asked'.result.ok
              /\ asked'.result.val.encoded_jwt = subject.encoded_jwt
              /\ asked'.result.val.token_type = subject.token_type
              /\ asked'.result.val.decoded_jwt = decode_jwt(store[subject.token_type]).val
              /\ asked'.result.val.expiration =
                    get_expiration(decode_jwt(store[subject.token_type]).val).val
              /\ store' = store
      ]_vars

\* a token was saved over a different entry of its type, with the other two
\* types stored, and then loaded back
C32_Witness ==
    /\ asked # None
    /\ asked.method = "from_type"
    /\ asked.after = "save"
    /\ subject # None
    /\ asked.token_type = subject.token_type
    /\ asked.result = Ok(subject)
    /\ store[subject.token_type] = subject.encoded_jwt
    /\ \A t \in TokenType : store[t] # None
    /\ \A t \in TokenType \ {subject.token_type} : store[t] # subject.encoded_jwt
\* login is in wait_for_code and has not yet taken a code out of the queue
NotYetConsumed == cmd = "login" /\ pc \in {"l82", "l84", "l88"}

\* C33: the handler puts the code into the queue before it sets the ready event,
\* so whenever the event is set and login has not yet consumed a code the queue
\* is non-empty, and the step that sets the event finds a code in the queue:
\* the get at line 89 never blocks.
C33_EventImpliesCodeQueued ==
    [][ /\ (NotYetConsumed /\ code_ready_event) => code_queue # <<>>
        /\ (~code_ready_event /\ code_ready_event') => code_queue # <<>>
      ]_vars

\* the wait loop has ended with the event set and login is about to get the code
C33_Witness ==
    /\ cmd = "login"
    /\ pc = "l88"
    /\ code_ready_event
    /\ code_queue # <<>>
    /\ authorization_code = <<>>
\* number of codes login has taken out of the queue
CodesTaken == Len(delivered) - Len(code_queue)

\* C34: in one login attempt the orchestrator takes a code out of the queue at
\* most once, and the code it holds and sends in the exchange is the first one
\* the listener delivered, also when a second redirect with another code was
\* handled before the shutdown request took effect.
C34_FirstCodeUsedOnce ==
    cmd = "login" =>
        /\ CodesTaken <= 1
        /\ CodesTaken = 1 <=> authorization_code # <<>>
        /\ authorization_code # <<>> => authorization_code[1] = delivered[1]
        /\ data # None => data.code = delivered[1]

\* two redirects with different codes were handled and the exchange was sent
\* with the first code
C34_Witness ==
    /\ cmd = "login"
    /\ Len(delivered) = 2
    /\ delivered[1] # delivered[2]
    /\ data # None
    /\ data.code = delivered[1]
    /\ code_queue = <<delivered[2]>>
\* login is inside wait_for_code
InWait == cmd = "login" /\ pc \in {"l82", "l84", "l88"}

\* C35: if the ready event is set when wait_for_code is left, the attempt
\* resolves as code received whatever ended the loop (the event, the deadline or
\* a user interrupt): the wait returns a code and login goes on to the exchange;
\* if it is not set at the test after the loop, no code is returned and none is
\* ever exchanged in this attempt, also when a code arrives afterwards.
C35_EventAtLoopExitDecides ==
    [][ /\ (InWait /\ ~InWait' /\ code_ready_event
              /\ \A i \in DOMAIN delivered : delivered[i] \in CallbackCodes) =>
              /\ pc' = "l125"
              /\ authorization_code' # <<>>
        /\ (InWait /\ ~InWait' /\ ~code_ready_event) => authorization_code' = <<>>
        /\ (cmd = "login" /\ ~InWait /\ browserOpened /\ authorization_code = <<>>) =>
              (exchangePosts' = 0 /\ authorization_code' = <<>>)
      ]_vars
\* C36: the listener's socket is bound and the thread of its serve loop started
\* before the authorization URL is opened in the browser: the step that opens
\* the browser finds both done, and as long as login runs after it, which is
\* when the provider can send a redirect, the port is bound.
C36_ListenerBeforeBrowser ==
    [][ /\ (~browserOpened /\ browserOpened') => (httpd.bound /\ srv # "none")
        /\ (Alive /\ browserOpened) => (httpd.bound /\ srv # "none")
      ]_vars

\* the browser has just been opened: the socket is bound, the serving thread is
\* started and no request has been sent yet
C36_Witness ==
    /\ cmd = "login"
    /\ pc = "l82"
    /\ browserOpened
    /\ httpd.bound
    /\ srv = "started"
    /\ sent = 0
\* C37: two logout invocations run concurrently on one keyring, their keyring
\* reads, writes and deletes interleaved in every way: once both have
\* terminated the store holds no token of any type.
C37_TwoLogoutsLeaveStoreEmpty ==
    (\A p \in Procs : logouts[p].pc = "exited") => store = Empty

\* both logouts have terminated after each refreshed and saved three tokens, and
\* one of them saved a token while the other was in the middle of Token.clear()
C37_Witness ==
    /\ \A p \in Procs : logouts[p].pc = "exited" /\ logouts[p].saved = 3
    /\ \E p \in Procs : logouts[p].raced
    /\ store = Empty
\* the token details of the session messages written so far
ShownDetails ==
    UNION { {out[i].access_token, out[i].refresh_token} :
               i \in {j \in DOMAIN out : "access_token" \in DOMAIN out[j]} }

\* C38: session show puts the encoded JWT of a token into its output only if
\* the show-token feature is enabled and that token is unexpired when the
\* output is written; with the feature disabled no encoded token is in the
\* output, whatever the store holds.
C38_TokenShownOnlyWhenEnabled ==
    [][ /\ (cmd = "session_show" /\ pc = "ss39" /\ pc' = "exited") =>
              LET m == out'[Len(out')] IN
              /\ m.refresh_token.token # <<>> =>
                    /\ "show-token" \in features
                    /\ m.refresh_token.token = <<token.encoded_jwt>>
                    /\ now < token.expiration
              /\ m.access_token.token # <<>> =>
                    /\ "show-token" \in features
                    /\ m.access_token.token = <<store["ACCESS"]>>
                    /\ now < NewToken(store["ACCESS"], "ACCESS").val.expiration
        /\ (cmd = "session_show" /\ "show-token" \notin features) =>
              \A d \in ShownDetails : d.token = <<>>
      ]_vars

\* with show-token enabled session show printed the Refresh token, which is still
\* valid, and withheld the Access token, which has expired
C38_Witness ==
    /\ cmd = "session_show"
    /\ Terminated
    /\ "show-token" \in features
    /\ Len(out) = 1
    /\ "access_token" \in DOMAIN out[1]
    /\ out[1].refresh_token.token = <<store["REFRESH"]>>
    /\ out[1].access_token.token = <<>>
    /\ out[1].access_token.status = "expired"
====
